---- MODULE Spec2Model ----
(***************************************************************************)
(* Aggregates of the DDD course repository as state machines.              *)
(*                                                                         *)
(* Every example of the repository is a self-contained program, so a       *)
(* behaviour exercises ONE example, chosen by the initial state (variable  *)
(* ex): the Order aggregate of aggregates_example_02, the Shipment         *)
(* aggregate of advanced_aggregates_example_03, the Course aggregate of    *)
(* end_to_end_example and the event-recording Order of                     *)
(* domain_events_example_02.                                               *)
(*                                                                         *)
(* A method is an operator from the object (a record of its fields) and    *)
(* the arguments to [exc, self]: the exception that escaped ("none" when   *)
(* the call returned) and the object as the call left it.  An action is    *)
(* one call of a method by a client.                                       *)
(***************************************************************************)
EXTENDS Integers, Sequences, FiniteSets, TLC

VARIABLES
    ex,        \* the example this behaviour exercises
    order,     \* aggregates_example_02.Order: [status, version, items]
    shipment,  \* advanced_aggregates_example_03.Shipment
    course,    \* end_to_end_example Course
    evorder,   \* domain_events_example_02.Order
    last,      \* the last call: [op, exc, arg, ret]
    emitted,   \* history: every event appended to the buffer so far
    pulled,    \* history: concatenation of what pull_domain_events returned
    registry,  \* the dispatcher's dict: event type -> list of handlers
    held,      \* the value object or entity the client holds
    repo,      \* the repository's dict: id -> stored object
    succ,      \* history: mutator calls that returned without raising
    steps      \* history: calls that changed the object in this behaviour

vars ==
    <<ex, order, shipment, course, evorder, last, emitted, pulled, registry, held,
      repo, succ, steps>>

(***************************************************************************)
(* Bounds of the exploration.                                              *)
(***************************************************************************)
\* state-changing calls explored per behaviour
MaxSteps == 3

\* Python's None, for the id fields
None == 0

NoExc == "none"

Ret(exc, self) == [exc |-> exc, self |-> self]

Raise(exc, self) == Ret(exc, self)

\* Python's None where an object is expected
NoObject == [class |-> "NoneType"]

Return(self) == Ret(NoExc, self)

(***************************************************************************)
(* aggregates_example_02: Order and OrderItem                              *)
(***************************************************************************)
PENDING == "PENDING"
PAID == "PAID"
SHIPPED == "SHIPPED"
CANCELLED == "CANCELLED"

OrderStatus == {PENDING, PAID, SHIPPED, CANCELLED}

MAX_ITEMS_PER_ORDER == 10

MAX_QUANTITY_PER_ITEM == 100

\* OrderItem(product_id, product_name, quantity, price_per_unit): the dataclass
\* constructor followed by __post_init__. product_name is only carried along.
OrderItem(product_id, quantity, price_per_unit) ==
    LET item == [product_id |-> product_id, quantity |-> quantity,
                 price_per_unit |-> price_per_unit]
    IN  IF quantity <= 0 THEN Raise("ValueError", item)
        ELSE IF price_per_unit < 0 THEN Raise("ValueError", item)
        ELSE Return(item)

OrderItem_change_quantity(self, new_quantity) ==
    IF new_quantity <= 0 THEN Raise("ValueError", self)
    ELSE Return([self EXCEPT !.quantity = new_quantity])

OrderItem_total_price(self) == self.quantity * self.price_per_unit

\* Order(customer_id): the dataclass defaults
Order_new == [status |-> PENDING, version |-> 1, items |-> <<>>]

Order_increment_version(self) == [self EXCEPT !.version = self.version + 1]

\* a plausible slip: the property hands out the internal list itself
Order_items_aliased(self) == [aliased |-> TRUE, value |-> self.items]

\* the items property: list(self._items), a new list of the same OrderItems.
\* aliased tells whether the result is the internal list itself.
Order_items(self) == [aliased |-> FALSE, value |-> self.items]

\* index of the first item with this product id, 0 when there is none
Order_find_item(self, product_id) ==
    LET hits == {i \in 1..Len(self.items) : self.items[i].product_id = product_id}
    IN  IF hits = {} THEN 0 ELSE CHOOSE i \in hits : \A j \in hits : i <= j

\* a plausible slip: the version is bumped before the limit of the summed
\* quantity is checked
Order_add_item_early_version(self, product, quantity) ==
    IF self.status # PENDING THEN Raise("ValueError", self)
    ELSE IF Len(self.items) >= MAX_ITEMS_PER_ORDER THEN Raise("ValueError", self)
    ELSE IF quantity <= 0 \/ quantity > MAX_QUANTITY_PER_ITEM
         THEN Raise("ValueError", self)
    ELSE LET i == Order_find_item(self, product.id)
             bumped == Order_increment_version(self)
         IN  IF i # 0
             THEN IF self.items[i].quantity + quantity > MAX_QUANTITY_PER_ITEM
                  THEN Raise("ValueError", bumped)
                  ELSE Return([bumped EXCEPT !.items[i].quantity = @ + quantity])
             ELSE LET made == OrderItem(product.id, quantity, product.price)
                  IN  IF made.exc # NoExc THEN Raise(made.exc, bumped)
                      ELSE Return([bumped EXCEPT !.items = Append(@, made.self)])

Order_add_item(self, product, quantity) ==
    IF self.status # PENDING THEN Raise("ValueError", self)
    ELSE IF Len(self.items) >= MAX_ITEMS_PER_ORDER THEN Raise("ValueError", self)
    ELSE IF quantity <= 0 \/ quantity > MAX_QUANTITY_PER_ITEM
         THEN Raise("ValueError", self)
    ELSE LET i == Order_find_item(self, product.id)
         IN  IF i # 0
             THEN LET new_quantity == self.items[i].quantity + quantity
                  IN  IF new_quantity > MAX_QUANTITY_PER_ITEM
                      THEN Raise("ValueError", self)
                      ELSE LET changed ==
                                 OrderItem_change_quantity(self.items[i], new_quantity)
                           IN  IF changed.exc # NoExc THEN Raise(changed.exc, self)
                               ELSE Return(Order_increment_version(
                                      [self EXCEPT !.items[i] = changed.self]))
             ELSE LET made == OrderItem(product.id, quantity, product.price)
                  IN  IF made.exc # NoExc THEN Raise(made.exc, self)
                      ELSE Return(Order_increment_version(
                             [self EXCEPT !.items = Append(@, made.self)]))

\* list.remove: drops the first element equal to the one found
RemoveAt(s, i) == SubSeq(s, 1, i - 1) \o SubSeq(s, i + 1, Len(s))

\* a plausible slip: remove_item does not look at the status
Order_remove_item_any_status(self, product_id) ==
    LET i == Order_find_item(self, product_id)
    IN  IF i # 0
        THEN Return(Order_increment_version([self EXCEPT !.items = RemoveAt(@, i)]))
        ELSE Raise("ValueError", self)

Order_remove_item(self, product_id) ==
    IF self.status # PENDING THEN Raise("ValueError", self)
    ELSE LET i == Order_find_item(self, product_id)
         IN  IF i # 0
             THEN Return(Order_increment_version(
                    [self EXCEPT !.items = RemoveAt(@, i)]))
             ELSE Raise("ValueError", self)

\* a plausible slip: the new quantity is not compared with the upper limit
Order_update_item_quantity_unbounded(self, product_id, new_quantity) ==
    IF self.status # PENDING THEN Raise("ValueError", self)
    ELSE IF new_quantity <= 0 THEN Raise("ValueError", self)
    ELSE LET i == Order_find_item(self, product_id)
         IN  IF i # 0
             THEN LET changed == OrderItem_change_quantity(self.items[i], new_quantity)
                  IN  IF changed.exc # NoExc THEN Raise(changed.exc, self)
                      ELSE Return(Order_increment_version(
                             [self EXCEPT !.items[i] = changed.self]))
             ELSE Raise("ValueError", self)

Order_update_item_quantity(self, product_id, new_quantity) ==
    IF self.status # PENDING THEN Raise("ValueError", self)
    ELSE IF new_quantity <= 0 \/ new_quantity > MAX_QUANTITY_PER_ITEM
         THEN Raise("ValueError", self)
    ELSE LET i == Order_find_item(self, product_id)
         IN  IF i # 0
             THEN LET changed == OrderItem_change_quantity(self.items[i], new_quantity)
                  IN  IF changed.exc # NoExc THEN Raise(changed.exc, self)
                      ELSE Return(Order_increment_version(
                             [self EXCEPT !.items[i] = changed.self]))
             ELSE Raise("ValueError", self)

RECURSIVE SumPrices(_)
SumPrices(items) ==
    IF items = <<>> THEN 0
    ELSE OrderItem_total_price(Head(items)) + SumPrices(Tail(items))

Order_total_price(self) == SumPrices(self.items)

\* a plausible slip: pay forgets to bump the version
Order_pay_keeps_version(self) ==
    IF self.status # PENDING THEN Raise("ValueError", self)
    ELSE IF self.items = <<>> THEN Raise("ValueError", self)
    ELSE Return([self EXCEPT !.status = PAID])

Order_pay(self) ==
    IF self.status # PENDING THEN Raise("ValueError", self)
    ELSE IF self.items = <<>> THEN Raise("ValueError", self)
    ELSE Return(Order_increment_version([self EXCEPT !.status = PAID]))

Order_ship(self) ==
    IF self.status # PAID THEN Raise("ValueError", self)
    ELSE Return(Order_increment_version([self EXCEPT !.status = SHIPPED]))

\* a plausible slip: SHIPPED is accepted as a source status of cancel
Order_cancel_from_shipped(self) ==
    IF self.status \notin {PENDING, PAID, SHIPPED} THEN Raise("ValueError", self)
    ELSE Return(Order_increment_version([self EXCEPT !.status = CANCELLED]))

Order_cancel(self) ==
    IF self.status \notin {PENDING, PAID} THEN Raise("ValueError", self)
    ELSE Return(Order_increment_version([self EXCEPT !.status = CANCELLED]))

\* The products a client passes: Product is a plain dataclass, so any price,
\* a negative one included, can arrive.
ProductInputs ==
    { [id |-> 1, price |-> 50], [id |-> 10, price |-> 50],
      [id |-> 11, price |-> 20], [id |-> 12, price |-> -1] }

ProductIdInputs == {p.id : p \in ProductInputs}

QuantityInputs == {0, 1, 50, 101}

\* The order after n add_item calls for n distinct products (the loop of
\* test_add_item_respects_max_items_limit): a state the program reaches.
RECURSIVE Order_filled(_)
Order_filled(n) ==
    IF n = 0 THEN Order_new
    ELSE Order_add_item(Order_filled(n - 1), [id |-> n, price |-> 10], 1).self

\* the orders a client of the items property starts from: one item, the order
\* still PENDING or already paid
HeldOrders ==
    LET one == Order_add_item(Order_new, [id |-> 1, price |-> 50], 1).self
    IN  {one, Order_pay(one).self}

PrefillInputs == {0, MAX_ITEMS_PER_ORDER - 1}

(***************************************************************************)
(* advanced_aggregates_example_03: Shipment                                *)
(*                                                                         *)
(* Weights and volumes are counted in units of 0.001 (the value the code   *)
(* reports for an empty shipment), with exact arithmetic.                  *)
(***************************************************************************)
PREPARING == "PREPARING"
DISPATCHED == "DISPATCHED"
IN_TRANSIT == "IN_TRANSIT"
DELIVERED == "DELIVERED"

ShipmentStatus == {PREPARING, DISPATCHED, IN_TRANSIT, DELIVERED, "CANCELLED"}

\* status is None until the factory has run
NoStatus == "None"

\* Weight(0.001) and Volume(0.001), reported while there is no parcel
EmptyHack == 1

\* Weight.__post_init__ / Volume.__post_init__
Weight(value) == IF value <= 0 THEN Raise("ValueError", value) ELSE Return(value)

Volume(value) == IF value <= 0 THEN Raise("ValueError", value) ELSE Return(value)

Shipment_init ==
    [id |-> None, status |-> NoStatus, parcels |-> <<>>, events |-> <<>>,
     max_weight |-> None, max_volume |-> None, version |-> 0]

Shipment_add_event(self, event) == [self EXCEPT !.events = Append(@, event)]

Shipment_increment_version(self) == [self EXCEPT !.version = self.version + 1]

\* destination is "Address" when it is an instance of Address
Shipment_create(destination, max_weight, max_volume) ==
    IF destination # "Address" THEN Raise("TypeError", Shipment_init)
    ELSE LET made == [Shipment_init EXCEPT !.id = 1, !.status = PREPARING,
                        !.max_weight = max_weight, !.max_volume = max_volume,
                        !.version = 1]
         IN  Return(Shipment_add_event(made,
                 [type |-> "ShipmentCreated", aggregate_id |-> made.id,
                  max_weight |-> max_weight, max_volume |-> max_volume]))

RECURSIVE SumWeights(_)
SumWeights(parcels) ==
    IF parcels = <<>> THEN 0 ELSE Head(parcels).weight + SumWeights(Tail(parcels))

RECURSIVE SumVolumes(_)
SumVolumes(parcels) ==
    IF parcels = <<>> THEN 0 ELSE Head(parcels).volume + SumVolumes(Tail(parcels))

Shipment_current_weight(self) ==
    IF self.parcels # <<>> THEN SumWeights(self.parcels) ELSE EmptyHack

Shipment_current_volume(self) ==
    IF self.parcels # <<>> THEN SumVolumes(self.parcels) ELSE EmptyHack

\* the parcels property: list(self._parcels)
Shipment_parcels(self) == [aliased |-> FALSE, value |-> self.parcels]

Shipment_pull_domain_events(self) ==
    [exc |-> NoExc, self |-> [self EXCEPT !.events = <<>>], events |-> self.events]

\* a plausible slip: the parcel is stored before the limits are checked
Shipment_add_parcel_store_first(self, order_id, weight, volume) ==
    LET stored == [self EXCEPT !.parcels = Append(@,
                     [order_id |-> order_id, weight |-> weight, volume |-> volume])]
    IN  IF self.status # PREPARING THEN Raise("ValueError", self)
        ELSE IF SumWeights(stored.parcels) > self.max_weight
             THEN Raise("ValueError", stored)
        ELSE IF SumVolumes(stored.parcels) > self.max_volume
             THEN Raise("ValueError", stored)
        ELSE IF \E i \in 1..Len(self.parcels) : self.parcels[i].order_id = order_id
             THEN Raise("ValueError", stored)
        ELSE Return(Shipment_add_event(Shipment_increment_version(stored),
                 [type |-> "ParcelAddedToShipment", aggregate_id |-> self.id,
                  order_id |-> order_id, weight |-> weight, volume |-> volume]))

\* a plausible slip: the limit is compared with the load before the new parcel
Shipment_add_parcel_unweighed(self, order_id, weight, volume) ==
    IF self.status # PREPARING THEN Raise("ValueError", self)
    ELSE IF Shipment_current_weight(self) > self.max_weight
         THEN Raise("ValueError", self)
    ELSE IF Shipment_current_volume(self) + volume > self.max_volume
         THEN Raise("ValueError", self)
    ELSE IF \E i \in 1..Len(self.parcels) : self.parcels[i].order_id = order_id
         THEN Raise("ValueError", self)
    ELSE Return(Shipment_add_event(Shipment_increment_version(
             [self EXCEPT !.parcels = Append(@,
                [order_id |-> order_id, weight |-> weight, volume |-> volume])]),
             [type |-> "ParcelAddedToShipment", aggregate_id |-> self.id,
              order_id |-> order_id, weight |-> weight, volume |-> volume]))

Shipment_add_parcel(self, order_id, weight, volume) ==
    IF self.status # PREPARING THEN Raise("ValueError", self)
    ELSE IF self.max_weight = None THEN Raise("RuntimeError", self)
    ELSE IF Shipment_current_weight(self) + weight > self.max_weight
         THEN Raise("ValueError", self)
    ELSE IF self.max_volume = None THEN Raise("RuntimeError", self)
    ELSE IF Shipment_current_volume(self) + volume > self.max_volume
         THEN Raise("ValueError", self)
    ELSE IF \E i \in 1..Len(self.parcels) : self.parcels[i].order_id = order_id
         THEN Raise("ValueError", self)
    ELSE LET added == Shipment_increment_version(
                        [self EXCEPT !.parcels = Append(@,
                           [order_id |-> order_id, weight |-> weight,
                            volume |-> volume])])
         IN  IF added.id = None THEN Raise("RuntimeError", added)
             ELSE Return(Shipment_add_event(added,
                      [type |-> "ParcelAddedToShipment", aggregate_id |-> added.id,
                       order_id |-> order_id, weight |-> weight, volume |-> volume]))

\* a plausible slip: the status changes but the event is not recorded
Shipment_dispatch_silent(self, timestamp) ==
    IF self.status # PREPARING THEN Raise("ValueError", self)
    ELSE IF self.parcels = <<>> THEN Raise("ValueError", self)
    ELSE Return(Shipment_increment_version([self EXCEPT !.status = DISPATCHED]))

\* a plausible slip: the test for an empty shipment is forgotten
Shipment_dispatch_empty(self, timestamp) ==
    IF self.status # PREPARING THEN Raise("ValueError", self)
    ELSE LET sent == Shipment_increment_version([self EXCEPT !.status = DISPATCHED])
         IN  IF sent.id = None THEN Raise("RuntimeError", sent)
             ELSE Return(Shipment_add_event(sent,
                      [type |-> "ShipmentDispatched", aggregate_id |-> sent.id,
                       dispatch_timestamp |-> timestamp]))

Shipment_dispatch(self, timestamp) ==
    IF self.status # PREPARING THEN Raise("ValueError", self)
    ELSE IF self.parcels = <<>> THEN Raise("ValueError", self)
    ELSE LET sent == Shipment_increment_version([self EXCEPT !.status = DISPATCHED])
         IN  IF sent.id = None THEN Raise("RuntimeError", sent)
             ELSE Return(Shipment_add_event(sent,
                      [type |-> "ShipmentDispatched", aggregate_id |-> sent.id,
                       dispatch_timestamp |-> timestamp]))

\* a plausible slip: a delivery reopens the shipment instead of closing it
Shipment_mark_as_delivered_reopening(self, timestamp) ==
    IF self.status \notin {DISPATCHED, IN_TRANSIT} THEN Raise("ValueError", self)
    ELSE Return(Shipment_increment_version([self EXCEPT !.status = PREPARING]))

Shipment_mark_as_delivered(self, timestamp) ==
    IF self.status \notin {DISPATCHED, IN_TRANSIT} THEN Raise("ValueError", self)
    ELSE LET done == Shipment_increment_version([self EXCEPT !.status = DELIVERED])
         IN  IF done.id = None THEN Raise("RuntimeError", done)
             ELSE Return(Shipment_add_event(done,
                      [type |-> "ShipmentDelivered", aggregate_id |-> done.id,
                       delivery_timestamp |-> timestamp]))

\* What a client passes. The limits and the parcels' sizes are Weight and
\* Volume objects, so only values their constructors accept arrive.
WeightInputs == {v \in {0, 1, 4, 5} : Weight(v).exc = NoExc}

VolumeInputs == {v \in {0, 1, 3} : Volume(v).exc = NoExc}

MaxWeightInputs == {5}

MaxVolumeInputs == {4}

ParcelOrderIds == {1, 2}

DestinationInputs == {"Address", "str"}

TimestampInputs == {1678886400}

(***************************************************************************)
(* end_to_end_example/domain/course.py: Course                             *)
(***************************************************************************)
\* no Course object yet: the client has not called Course.create
Course_absent ==
    [id |-> None, capacity |-> 0, students |-> {}, events |-> <<>>, version |-> 0]

\* Course(id, name, capacity): the dataclass defaults. The name is a CourseName,
\* validated by its own constructor and only copied into CourseCreated.
Course_init(id, capacity) ==
    [id |-> id, capacity |-> capacity, students |-> {}, events |-> <<>>,
     version |-> 0]

Course_increment_version(self) == [self EXCEPT !.version = self.version + 1]

Course_add_event(self, event) ==
    Course_increment_version([self EXCEPT !.events = Append(@, event)])

\* a plausible slip: the factory does not check the capacity
Course_create_unchecked(capacity) ==
    LET made == Course_init(1, capacity)
        noted == Course_add_event(made,
                   [type |-> "CourseCreated", aggregate_id |-> made.id,
                    capacity |-> made.capacity])
    IN  Return([noted EXCEPT !.version = 1])

Course_create(capacity) ==
    IF capacity <= 0 THEN Raise("ValueError", Course_absent)
    ELSE LET made == Course_init(1, capacity)
             noted == Course_add_event(made,
                        [type |-> "CourseCreated", aggregate_id |-> made.id,
                         capacity |-> made.capacity])
         IN  Return([noted EXCEPT !.version = 1])

\* the students property: set(self._students)
Course_students(self) == [aliased |-> FALSE, value |-> self.students]

\* a plausible slip: the buffer is copied but not cleared
Course_pull_domain_events_keep(self) ==
    [exc |-> NoExc, self |-> self, events |-> self.events]

Course_pull_domain_events(self) ==
    [exc |-> NoExc, self |-> [self EXCEPT !.events = <<>>], events |-> self.events]

\* a plausible slip: the capacity test lets one student too many in
Course_enroll_student_off_by_one(self, student_id) ==
    IF Cardinality(self.students) > self.capacity THEN Raise("ValueError", self)
    ELSE IF student_id \in self.students THEN Return(self)
    ELSE LET added == Course_add_event(
                        [self EXCEPT !.students = @ \cup {student_id}],
                        [type |-> "StudentEnrolled", aggregate_id |-> self.id,
                         student_id |-> student_id])
         IN  IF Cardinality(added.students) = added.capacity
             THEN Return(Course_add_event(added,
                      [type |-> "EnrollmentClosed", aggregate_id |-> added.id]))
             ELSE Return(added)

\* a plausible slip: the closing event is raised while one seat is still free
Course_enroll_student_early_close(self, student_id) ==
    IF Cardinality(self.students) >= self.capacity THEN Raise("ValueError", self)
    ELSE IF student_id \in self.students THEN Return(self)
    ELSE LET added == Course_add_event(
                        [self EXCEPT !.students = @ \cup {student_id}],
                        [type |-> "StudentEnrolled", aggregate_id |-> self.id,
                         student_id |-> student_id])
         IN  IF Cardinality(added.students) >= added.capacity - 1
             THEN Return(Course_add_event(added,
                      [type |-> "EnrollmentClosed", aggregate_id |-> added.id]))
             ELSE Return(added)

Course_enroll_student(self, student_id) ==
    IF Cardinality(self.students) >= self.capacity THEN Raise("ValueError", self)
    ELSE IF student_id \in self.students THEN Return(self)
    ELSE LET added == Course_add_event(
                        [self EXCEPT !.students = @ \cup {student_id}],
                        [type |-> "StudentEnrolled", aggregate_id |-> self.id,
                         student_id |-> student_id])
         IN  IF Cardinality(added.students) = added.capacity
             THEN Return(Course_add_event(added,
                      [type |-> "EnrollmentClosed", aggregate_id |-> added.id]))
             ELSE Return(added)

CapacityInputs == {0, 1, 2, 3}

StudentIds == {1, 2, 3, 4}

(***************************************************************************)
(* domain_events_example_02: the Order that records domain events          *)
(***************************************************************************)
\* no Order object yet: the client has neither called Order.create nor Order(...)
EventOrder_absent == [id |-> None, status |-> PENDING, events |-> <<>>]

\* Order(id, customer_id, items, total_amount): the dataclass defaults
EventOrder_init == [id |-> 1, status |-> PENDING, events |-> <<>>]

\* UserRegistered(...), OrderCreated(...), OrderPaid(...): __post_init__ calls
\* DomainEvent.__init__, which assigns event_id and occurred_on; the classes
\* are frozen dataclasses, whose __setattr__ raises for every assignment
DomainEvent_post_init(event) == Raise("FrozenInstanceError", event)

EventOrder_add_domain_event(self, event) ==
    [self EXCEPT !.events = Append(@, event)]

\* items and total_amount are only copied into OrderCreated
EventOrder_create(total_amount) ==
    LET made == EventOrder_init
        event == DomainEvent_post_init([type |-> "OrderCreated", order_id |-> made.id,
                                        total_amount |-> total_amount])
    IN  IF event.exc # NoExc THEN Raise(event.exc, EventOrder_absent)
        ELSE Return(EventOrder_add_domain_event(made, event.self))

EventOrder_pull_domain_events(self) ==
    [exc |-> NoExc, self |-> [self EXCEPT !.events = <<>>], events |-> self.events]

\* status is assigned before the event is built
EventOrder_pay(self, payment_reference) ==
    IF self.status = PAID THEN Raise("ValueError", self)
    ELSE LET paid == [self EXCEPT !.status = PAID]
             event == DomainEvent_post_init([type |-> "OrderPaid", order_id |-> self.id,
                                             payment_reference |-> payment_reference])
         IN  IF event.exc # NoExc THEN Raise(event.exc, paid)
             ELSE Return(EventOrder_add_domain_event(paid, event.self))

TotalAmountInputs == {0, 100}

PaymentReferences == {1, 2}

(***************************************************************************)
(* The event dispatchers: DomainEventDispatcher (domain_events_example_02), *)
(* register_handler / dispatch_event (advanced_aggregates_example_03) and   *)
(* InMemoryEventBus (booking/infrastructure.py).                            *)
(*                                                                         *)
(* A registry is the dict from event type to the list of its handlers: a   *)
(* function whose domain holds the types registered so far. A handler is   *)
(* a callable: named tells whether it has a __name__ (a function has, a    *)
(* MagicMock or a functools.partial has not), raises whether calling it    *)
(* raises an Exception. A dispatch yields the escaped exception and log,   *)
(* the handler invocations it made, in order.                              *)
(***************************************************************************)
\* two event classes whose instances a client can build (UserRegistered,
\* OrderCreated and OrderPaid of domain_events_example_02 are not among them:
\* see DomainEvent_post_init), and three events: two of the first, one of the
\* second
EventTypes == {"EventA", "EventB"}

EventInputs ==
    {[type |-> "EventA", id |-> 1], [type |-> "EventB", id |-> 2],
     [type |-> "EventA", id |-> 3]}

HandlerInputs ==
    {[name |-> "send_welcome_email", named |-> TRUE, raises |-> FALSE],
     [name |-> "failing_handler", named |-> TRUE, raises |-> TRUE],
     [name |-> "MagicMock", named |-> FALSE, raises |-> FALSE]}

\* handler(event): the exception the call ends with
Handler_call(handler, event) == IF handler.raises THEN "RuntimeError" ELSE NoExc

Invocation(handler, event) == [handler |-> handler.name, event |-> event]

\* if event_type not in handlers: handlers[event_type] = []; then append
Registry_append(handlers, event_type, handler) ==
    IF event_type \in DOMAIN handlers
    THEN [handlers EXCEPT ![event_type] = Append(@, handler)]
    ELSE handlers @@ (event_type :> <<handler>>)

\* the print after the append reads handler.__name__
DomainEventDispatcher_register(handlers, event_type, handler) ==
    LET appended == Registry_append(handlers, event_type, handler)
    IN  IF handler.named THEN Return(appended) ELSE Raise("AttributeError", appended)

\* the loop of dispatch. Inside the try, the print reads handler.__name__
\* before the handler is called; except Exception catches what the handler or
\* that print raises, and its own print reads handler.__name__ again: for a
\* handler without a name this second AttributeError escapes the loop.
RECURSIVE DomainEventDispatcher_loop(_, _)
DomainEventDispatcher_loop(handlers, event) ==
    IF handlers = <<>> THEN [exc |-> NoExc, log |-> <<>>]
    ELSE LET handler == Head(handlers)
         IN  IF ~handler.named THEN [exc |-> "AttributeError", log |-> <<>>]
             ELSE LET caught == Handler_call(handler, event)
                      rest == DomainEventDispatcher_loop(Tail(handlers), event)
                  IN  [exc |-> rest.exc,
                       log |-> <<Invocation(handler, event)>> \o rest.log]

DomainEventDispatcher_dispatch(handlers, event) ==
    IF event.type \in DOMAIN handlers
    THEN DomainEventDispatcher_loop(handlers[event.type], event)
    ELSE [exc |-> NoExc, log |-> <<>>]

RECURSIVE DomainEventDispatcher_dispatch_batch(_, _)
DomainEventDispatcher_dispatch_batch(handlers, events) ==
    IF events = <<>> THEN [exc |-> NoExc, log |-> <<>>]
    ELSE LET one == DomainEventDispatcher_dispatch(handlers, Head(events))
         IN  IF one.exc # NoExc THEN one
             ELSE LET rest == DomainEventDispatcher_dispatch_batch(handlers,
                                                                   Tail(events))
                  IN  [exc |-> rest.exc, log |-> one.log \o rest.log]

register_handler(event_handlers, event_type, handler) ==
    Return(Registry_append(event_handlers, event_type, handler))

\* the loop of dispatch_event: handler(event) with no try around it
RECURSIVE dispatch_event_loop(_, _)
dispatch_event_loop(handlers, event) ==
    IF handlers = <<>> THEN [exc |-> NoExc, log |-> <<>>]
    ELSE LET handler == Head(handlers)
             exc == Handler_call(handler, event)
         IN  IF exc # NoExc
             THEN [exc |-> exc, log |-> <<Invocation(handler, event)>>]
             ELSE LET rest == dispatch_event_loop(Tail(handlers), event)
                  IN  [exc |-> rest.exc,
                       log |-> <<Invocation(handler, event)>> \o rest.log]

dispatch_event(event_handlers, event) ==
    IF event.type \in DOMAIN event_handlers
    THEN dispatch_event_loop(event_handlers[event.type], event)
    ELSE [exc |-> NoExc, log |-> <<>>]

InMemoryEventBus_subscribe(subscribers, event_type, handler) ==
    Return(Registry_append(subscribers, event_type, handler))

\* the loop of publish: await handler(event) inside try / except Exception
RECURSIVE InMemoryEventBus_loop(_, _)
InMemoryEventBus_loop(handlers, event) ==
    IF handlers = <<>> THEN <<>>
    ELSE LET handler == Head(handlers)
             caught == Handler_call(handler, event)
         IN  <<Invocation(handler, event)>>
                \o InMemoryEventBus_loop(Tail(handlers), event)

InMemoryEventBus_publish(subscribers, event) ==
    IF event.type \notin DOMAIN subscribers THEN [exc |-> NoExc, log |-> <<>>]
    ELSE [exc |-> NoExc, log |-> InMemoryEventBus_loop(subscribers[event.type], event)]

\* the lists a client passes to dispatch_batch
MaxBatch == 2

BatchInputs == UNION {[1..n -> EventInputs] : n \in 0..MaxBatch}

(***************************************************************************)
(* value_objects_example_02: Money                                         *)
(*                                                                         *)
(* amount is a Python float: a finite number (here an integer), nan or an  *)
(* infinity. currency is a str: the sequence of its characters, each named *)
(* by itself or by its code point.                                         *)
(***************************************************************************)
Float(v) == [nan |-> FALSE, inf |-> 0, v |-> v]

NaN == [nan |-> TRUE, inf |-> 0, v |-> 0]

Inf == [nan |-> FALSE, inf |-> 1, v |-> 0]

NegInf == [nan |-> FALSE, inf |-> -1, v |-> 0]

\* x < 0 and x >= 0 on floats: every comparison with nan is False
Float_lt0(x) == ~x.nan /\ (x.inf = -1 \/ (x.inf = 0 /\ x.v < 0))

Float_ge0(x) == ~x.nan /\ (x.inf = 1 \/ (x.inf = 0 /\ x.v >= 0))

\* x + y and x - y on floats
Float_add(x, y) ==
    IF x.nan \/ y.nan THEN NaN
    ELSE IF x.inf # 0 /\ y.inf # 0 THEN (IF x.inf = y.inf THEN x ELSE NaN)
    ELSE IF x.inf # 0 THEN x
    ELSE IF y.inf # 0 THEN y
    ELSE Float(x.v + y.v)

Float_neg(x) == IF x.nan THEN NaN ELSE [nan |-> FALSE, inf |-> -x.inf, v |-> -x.v]

Float_sub(x, y) == Float_add(x, Float_neg(y))

\* the characters of the currencies tried: upper-case letters, lower-case
\* letters, a digit, and U+4E2D, a letter that has no case
UpperLetters == {"R", "U", "B", "S", "D", "A"}

LowerLetters == {"r", "u", "b"}

UncasedLetters == {"U+4E2D"}

\* str.isalpha: not empty and every character is a letter
Str_isalpha(str) ==
    /\ str # <<>>
    /\ \A i \in 1..Len(str) :
          str[i] \in UpperLetters \cup LowerLetters \cup UncasedLetters

\* str.isupper: no lower-case character and at least one upper-case character
Str_isupper(str) ==
    /\ \A i \in 1..Len(str) : str[i] \notin LowerLetters
    /\ \E i \in 1..Len(str) : str[i] \in UpperLetters

\* Money(amount, currency): the dataclass constructor followed by __post_init__
Money(amount, currency) ==
    LET self == [class |-> "Money", amount |-> amount, currency |-> currency]
    IN  IF Float_lt0(amount) THEN Raise("ValueError", NoObject)
        ELSE IF \/ currency = <<>>
                \/ Len(currency) # 3
                \/ ~Str_isalpha(currency)
                \/ ~Str_isupper(currency)
             THEN Raise("ValueError", NoObject)
        ELSE Return(self)

Money_add(self, other) ==
    IF self.currency # other.currency THEN Raise("ValueError", NoObject)
    ELSE Money(Float_add(self.amount, other.amount), self.currency)

\* a plausible slip: the currencies are not compared
Money_sub_any_currency(self, other) ==
    Money(Float_sub(self.amount, other.amount), self.currency)

Money_sub(self, other) ==
    IF self.currency # other.currency THEN Raise("ValueError", NoObject)
    ELSE Money(Float_sub(self.amount, other.amount), self.currency)

AmountInputs == {Float(-50), Float(0), Float(50), Float(100), NaN, Inf}

CurrencyInputs ==
    {<<"R", "U", "B">>, <<"U", "S", "D">>, <<"U", "S">>, <<"r", "u", "b">>,
     <<"U", "S", "1">>, <<"A", "U+4E2D", "U+4E2D">>, <<>>}

\* the Money values a client can build to use as the other operand
MoneyInputs ==
    {m.self : m \in {r \in {Money(amount, currency) :
                               amount \in AmountInputs, currency \in CurrencyInputs} :
                        r.exc = NoExc}}

(***************************************************************************)
(* repositories_example_02: User and InMemoryUserRepository;               *)
(* end_to_end_example/infrastructure/repositories.py:                      *)
(* InMemoryCourseRepository. A repository's dict is a function whose       *)
(* domain holds the ids stored so far.                                     *)
(***************************************************************************)
\* dict.get(key), dict[key] = value, del dict[key]
Dict_get(dict, key) == IF key \in DOMAIN dict THEN dict[key] ELSE NoObject

Dict_set(dict, key, value) ==
    IF key \in DOMAIN dict THEN [dict EXCEPT ![key] = value]
    ELSE dict @@ (key :> value)

Dict_del(dict, key) == [k \in DOMAIN dict \ {key} |-> dict[k]]

\* User(id, username, email, version)
User(id, username, email, version) ==
    [class |-> "User", id |-> id, username |-> username, email |-> email,
     version |-> version]

\* replace(self, email=new_email, version=self.version + 1)
User_update_email(self, new_email) ==
    [self EXCEPT !.email = new_email, !.version = self.version + 1]

InMemoryUserRepository_get_by_id(users, id) == Dict_get(users, id)

\* a plausible slip: a save that is not newer than the stored user is refused
InMemoryUserRepository_save_checked(users, user) ==
    IF user.id \in DOMAIN users /\ users[user.id].version >= user.version
    THEN Raise("ConcurrencyException", users)
    ELSE Return(Dict_set(users, user.id, user))

\* the version comparison only chooses what is printed
InMemoryUserRepository_save(users, user) == Return(Dict_set(users, user.id, user))

\* a plausible slip: the whole dict is emptied
InMemoryUserRepository_delete_all(users, id) ==
    IF id \in DOMAIN users THEN Return(<<>>) ELSE Return(users)

InMemoryUserRepository_delete(users, id) ==
    IF id \in DOMAIN users THEN Return(Dict_del(users, id)) ELSE Return(users)

InMemoryCourseRepository_save(courses, a_course) ==
    Return(Dict_set(courses, a_course.id, a_course))

InMemoryCourseRepository_find_by_id(courses, course_id) == Dict_get(courses, course_id)

\* two clients of the user repository, each holding at most one User
Writers == {"w1", "w2"}

UserIdInputs == {1, 2}

EmailInputs == {"alice@example.com", "stale@example.com"}

VersionInputs == {0, 1}

\* the courses a client saves: two ids, and two states under each id
CourseInputs == {Course_init(id, capacity) : id \in {1, 2}, capacity \in {1, 2}}

CourseIdInputs == {1, 2, 3}

(***************************************************************************)
(* Identity of the aggregates: __eq__ and __hash__ of Order                *)
(* (aggregates_example_02), Course (end_to_end_example) and Shipment       *)
(* (advanced_aggregates_example_03).                                       *)
(***************************************************************************)
\* an instance of class cls: its id and the rest of its state
Instance(cls, id, state) == [cls |-> cls, id |-> id, state |-> state]

HashModulus == 5

\* hash() of a frozen dataclass with the one field value, or of None
Hash(value) == (7 * value + 3) % HashModulus

\* aggregates_example_02.OrderId is a @dataclass with eq and without frozen:
\* the decorator sets __hash__ to None
OrderId_hash(id) == [exc |-> "TypeError", value |-> None]

CourseId_hash(id) == [exc |-> NoExc, value |-> Hash(id)]

ShipmentId_hash(id) == [exc |-> NoExc, value |-> Hash(id)]

Order_hash(self) == OrderId_hash(self.id)

Course_hash(self) == CourseId_hash(self.id)

\* hash((self.__class__, self.id))
Shipment_hash(self) ==
    LET id == ShipmentId_hash(self.id)
    IN  [exc |-> id.exc, value |-> (1 + 31 * id.value) % HashModulus]

\* isinstance(other, ...) fails: NotImplemented, and == answers False
Order_eq(self, other) == other.cls = "Order" /\ self.id = other.id

Course_eq(self, other) == other.cls = "Course" /\ self.id = other.id

Shipment_eq(self, other) == other.cls = "Shipment" /\ self.id = other.id

Aggregate_eq(self, other) ==
    CASE self.cls = "Order" -> Order_eq(self, other)
      [] self.cls = "Course" -> Course_eq(self, other)
      [] self.cls = "Shipment" -> Shipment_eq(self, other)

Aggregate_hash(self) ==
    CASE self.cls = "Order" -> Order_hash(self)
      [] self.cls = "Course" -> Course_hash(self)
      [] self.cls = "Shipment" -> Shipment_hash(self)

\* instances under two ids, in two states each; a Shipment may be bare
AggregateInputs ==
    {Instance("Order", id, o) :
        id \in {1, 2}, o \in {Order_new, [Order_new EXCEPT !.status = PAID, !.version = 2]}}
    \cup {Instance("Course", id, Course_init(id, capacity)) :
        id \in {1, 2}, capacity \in {1, 2}}
    \cup {Instance("Shipment", id, [Shipment_init EXCEPT !.id = id, !.status = st]) :
        id \in {1, 2}, st \in {PREPARING, DISPATCHED}}
    \cup {Instance("Shipment", None, Shipment_init)}

(***************************************************************************)
(* architecture_example_02: User, InMemoryUserRepository and               *)
(* UserApplicationService.                                                 *)
(***************************************************************************)
\* User(id, username, email): is_active defaults to True
Architecture_User(id, username, email) ==
    [class |-> "User", id |-> id, username |-> username, email |-> email,
     is_active |-> TRUE]

\* deactivating an inactive user only prints
Architecture_User_deactivate(self) ==
    IF ~self.is_active THEN self ELSE [self EXCEPT !.is_active = FALSE]

Architecture_InMemoryUserRepository_get_by_id(users, user_id) == Dict_get(users, user_id)

Architecture_InMemoryUserRepository_save(users, user) == Dict_set(users, user.id, user)

\* the first stored user, in insertion order, with that email; ids are handed
\* out in increasing order
Architecture_InMemoryUserRepository_find_by_email(users, email) ==
    LET found == {id \in DOMAIN users : users[id].email = email}
    IN  IF found = {} THEN NoObject
        ELSE users[CHOOSE id \in found : \A other \in found : id <= other]

\* UserId(): an id no stored user has
UserId_new(users) == Cardinality(DOMAIN users) + 1

\* uuid.UUID(user_id_str)
UuidStrings == {"1", "2", "3"}

UUID(user_id_str) ==
    IF user_id_str \notin UuidStrings THEN [exc |-> "ValueError", value |-> None]
    ELSE [exc |-> NoExc,
          value |-> CASE user_id_str = "1" -> 1
                      [] user_id_str = "2" -> 2
                      [] user_id_str = "3" -> 3]

\* a plausible slip: the email is not looked up
UserApplicationService_register_user_unchecked(users, command) ==
    IF command.username = "" \/ command.email = "" THEN Raise("ValidationException", users)
    ELSE LET new_user == Architecture_User(UserId_new(users), command.username, command.email)
         IN  Return(Architecture_InMemoryUserRepository_save(users, new_user))

\* the result is [exc, self], self being the repository's dict
UserApplicationService_register_user(users, command) ==
    IF command.username = "" \/ command.email = "" THEN Raise("ValidationException", users)
    ELSE IF Architecture_InMemoryUserRepository_find_by_email(users, command.email) # NoObject
    THEN Raise("ValidationException", users)
    ELSE LET new_user == Architecture_User(UserId_new(users), command.username, command.email)
         IN  Return(Architecture_InMemoryUserRepository_save(users, new_user))

UserApplicationService_deactivate_user(users, user_id_str) ==
    LET user_id == UUID(user_id_str)
    IN  IF user_id.exc # NoExc THEN Raise("ValidationException", users)
        ELSE LET user == Architecture_InMemoryUserRepository_get_by_id(users, user_id.value)
             IN  IF user = NoObject THEN Raise("EntityNotFoundException", users)
                 ELSE Return(Architecture_InMemoryUserRepository_save(
                                 users, Architecture_User_deactivate(user)))

RegisterUserCommand(username, email) == [username |-> username, email |-> email]

CommandInputs ==
    {RegisterUserCommand(username, email) :
        username \in {"", "testuser", "anotheruser"},
        email \in {"", "test@example.com", "exists@example.com", "third@example.com"}}

UserIdStrInputs == UuidStrings \cup {"invalid-uuid"}

(***************************************************************************)
(* accounting/domain.py: FinancialPeriod and Payment, with Money and        *)
(* DomainEvent of the shared kernel.                                       *)
(***************************************************************************)
FinancialPeriodStatus == {"open", "closed", "locked", "archived"}

\* FinancialPeriod(name, start_date, end_date): status defaults to OPEN
FinancialPeriod ==
    [class |-> "FinancialPeriod", status |-> "open", closed_by |-> None]

\* a plausible slip: a closed period is reopened as well
FinancialPeriod_unlock_closed(self) ==
    IF self.status \notin {"locked", "closed"} THEN Raise("DomainException", self)
    ELSE Return([self EXCEPT !.status = "open"])

FinancialPeriod_close(self, closed_by) ==
    IF self.status # "open" THEN Raise("DomainException", self)
    ELSE Return([self EXCEPT !.status = "closed", !.closed_by = closed_by])

FinancialPeriod_lock(self) ==
    IF self.status # "open" THEN Raise("DomainException", self)
    ELSE Return([self EXCEPT !.status = "locked"])

FinancialPeriod_unlock(self) ==
    IF self.status # "locked" THEN Raise("DomainException", self)
    ELSE Return([self EXCEPT !.status = "open"])

FinancialPeriod_archive(self) ==
    IF self.status # "closed" THEN Raise("DomainException", self)
    ELSE Return([self EXCEPT !.status = "archived"])

ClosedByInputs == {1, 2}

\* shared_kernel Money(amount=...): a pydantic model with amount >= 0
SharedMoney(amount) ==
    IF amount < 0 THEN Raise("ValidationError", NoObject)
    ELSE Return([class |-> "Money", amount |-> amount, currency |-> "RUB"])

\* self > other: the model defines __add__, __sub__ and __mul__ but no ordering
SharedMoney_gt(self, other) == [exc |-> "TypeError", value |-> FALSE]

\* Payment(event_type=..., invoice_id=..., amount=..., payment_method=...,
\* status=...): event_type is a required field inherited from DomainEvent
Payment(event_type, amount, status) ==
    IF event_type = NoObject THEN Raise("ValidationError", NoObject)
    ELSE Return([class |-> "Payment", event_type |-> event_type, amount |-> amount,
                 status |-> status, transaction_id |-> NoObject])

Payment_complete(self, transaction_id) ==
    IF self.status # "pending" THEN Raise("DomainException", self)
    ELSE Return([self EXCEPT !.status = "completed",
                             !.transaction_id = IF transaction_id # NoObject
                                                THEN transaction_id ELSE @])

Payment_fail(self) ==
    IF self.status # "pending" THEN Raise("DomainException", self)
    ELSE Return([self EXCEPT !.status = "failed"])

\* the result is [exc, self, ret]: the payment itself and the payment returned
Payment_refund(self, amount) ==
    IF self.status # "completed"
    THEN [exc |-> "DomainException", self |-> self, ret |-> NoObject]
    ELSE LET refund_amount == IF amount # NoObject THEN amount ELSE self.amount
             greater == SharedMoney_gt(refund_amount, self.amount)
         IN  IF greater.exc # NoExc
             THEN [exc |-> greater.exc, self |-> self, ret |-> NoObject]
             ELSE IF greater.value
             THEN [exc |-> "DomainException", self |-> self, ret |-> NoObject]
             ELSE LET refund == Payment(NoObject, refund_amount, "refunded")
                  IN  [exc |-> refund.exc, self |-> self, ret |-> refund.self]

PaymentAmountInputs == {SharedMoney(50).self, SharedMoney(100).self}

RefundAmountInputs == PaymentAmountInputs \cup {SharedMoney(150).self, NoObject}

EventTypeInputs == {[class |-> "str", value |-> "payment"], NoObject}

TransactionIdInputs == {[class |-> "str", value |-> "TXN123456"], NoObject}

(***************************************************************************)
(* end_to_end_example/application/services.py: CourseApplicationService    *)
(* over InMemoryCourseRepository. The repository's dict holds the Course   *)
(* objects themselves: courses[id] is the object every reference obtained  *)
(* from create or find_by_id designates.                                   *)
(***************************************************************************)
MaxCourses == 1

\* CourseName(name)
CourseName(name) ==
    IF ~(3 <= Len(name) /\ Len(name) <= 100) THEN Raise("ValueError", NoObject)
    ELSE Return(name)

\* the result is [exc, self, ret]: the repository's dict and the returned id
CourseApplicationService_create_course(courses, name, capacity) ==
    LET course_name == CourseName(name)
        made == Course_create(capacity)
        id == Cardinality(DOMAIN courses) + 1
        a_course == [made.self EXCEPT
                        !.id = id,
                        !.events = [i \in DOMAIN @ |-> [@[i] EXCEPT !.aggregate_id = id]]]
    IN  IF course_name.exc # NoExc
        THEN [exc |-> course_name.exc, self |-> courses, ret |-> NoObject]
        ELSE IF made.exc # NoExc
        THEN [exc |-> made.exc, self |-> courses, ret |-> NoObject]
        ELSE [exc |-> NoExc,
              self |-> InMemoryCourseRepository_save(courses, a_course).self,
              ret |-> [class |-> "str", value |-> id]]

CourseApplicationService_enroll_student(courses, course_id_str, student_id_str) ==
    LET course_uuid == UUID(course_id_str)
        student_uuid == UUID(student_id_str)
    IN  IF course_uuid.exc # NoExc \/ student_uuid.exc # NoExc
        THEN Raise("ValueError", courses)
        ELSE LET a_course == InMemoryCourseRepository_find_by_id(courses, course_uuid.value)
             IN  IF a_course = NoObject THEN Raise("ValueError", courses)
                 ELSE LET r == Course_enroll_student(a_course, student_uuid.value)
                      IN  IF r.exc # NoExc THEN Raise(r.exc, courses)
                          ELSE InMemoryCourseRepository_save(courses, r.self)

(***************************************************************************)
(* booking_platform_solution: the units of work of the accounting and the  *)
(* booking context over their in-memory repositories. A repository is the  *)
(* dict it keeps; the unit of work holds it in a field (invoices stands    *)
(* for the four accounting repositories, which rollback replaces together, *)
(* bookings for the booking ones, which rollback leaves alone together).   *)
(***************************************************************************)
BookingStatus == {"pending", "confirmed", "cancelled", "completed"}

\* Booking(room_id=..., period=DateRange(check_in, check_out)), built directly
Booking(id, room_id, check_in, check_out) ==
    [class |-> "Booking", id |-> id, room_id |-> room_id,
     period |-> [check_in |-> check_in, check_out |-> check_out],
     status |-> "pending"]

\* await InMemoryInvoiceRepository.save(invoice)
InMemoryInvoiceRepository_save(invoices, invoice) ==
    Return(Dict_set(invoices, invoice.id, invoice))

\* await InMemoryBookingRepository.add(booking)
InMemoryBookingRepository_add(bookings, booking) ==
    IF booking.id \in DOMAIN bookings THEN Raise("ValueError", bookings)
    ELSE Return(Dict_set(bookings, booking.id, booking))

AccountingUnitOfWork ==
    [class |-> "AccountingUnitOfWork", invoices |-> <<>>, committed |-> TRUE]

AccountingUnitOfWork_aenter(self) == [self EXCEPT !.committed = FALSE]

AccountingUnitOfWork_commit(self) == [self EXCEPT !.committed = TRUE]

AccountingUnitOfWork_rollback(self) ==
    IF ~self.committed THEN [self EXCEPT !.invoices = <<>>] ELSE self

AccountingUnitOfWork_aexit(self, exc_type) ==
    IF exc_type # NoExc THEN AccountingUnitOfWork_rollback(self)
    ELSE AccountingUnitOfWork_commit(self)

BookingUnitOfWork ==
    [class |-> "BookingUnitOfWork", bookings |-> <<>>, committed |-> FALSE]

\* __aenter__ fills the room and guest repositories with sample data and
\* leaves the bookings alone
BookingUnitOfWork_aenter(self) == self

BookingUnitOfWork_commit(self) == [self EXCEPT !.committed = TRUE]

BookingUnitOfWork_rollback(self) == [self EXCEPT !.committed = FALSE]

BookingUnitOfWork_aexit(self, exc_type) ==
    IF exc_type = NoExc THEN BookingUnitOfWork_commit(self)
    ELSE BookingUnitOfWork_rollback(self)

\* what the repositories of a unit of work hold
UnitOfWork_contents(self) ==
    IF self.class = "AccountingUnitOfWork" THEN self.invoices ELSE self.bookings

StoredIdInputs == {1, 2}
\* exc_type: NoExc stands for None
ExcTypeInputs == {NoExc, "ValueError"}

(***************************************************************************)
(* booking/domain.py: Booking and the domain service BookingService over   *)
(* InMemoryBookingRepository. Every method of the repository is a          *)
(* coroutine function (async def), and the service calls them without      *)
(* await: what it gets back is the coroutine object, not the result, and   *)
(* a coroutine that is never awaited does not run. A DomainEvent requires  *)
(* the field event_type (shared_kernel/domain.py), which no event of the   *)
(* booking context supplies, so building one raises ValidationError.       *)
(***************************************************************************)
MaxBookings == 2

\* the value of a call of an async def function that is not awaited
Coroutine(result) == [class |-> "coroutine", result |-> result]

ActiveStatuses == {"pending", "confirmed"}

\* await InMemoryBookingRepository.get_by_id(booking_id)
InMemoryBookingRepository_get_by_id(bookings, booking_id) ==
    IF booking_id \notin DOMAIN bookings THEN Raise("KeyError", NoObject)
    ELSE Return(bookings[booking_id])

\* await InMemoryBookingRepository.find_overlapping_bookings(...)
InMemoryBookingRepository_find_overlapping_bookings(bookings, room_id, check_in, check_out, exclude_booking_id) ==
    {bookings[id] : id \in
        {i \in DOMAIN bookings :
            /\ ~(exclude_booking_id # None /\ bookings[i].id = exclude_booking_id)
            /\ bookings[i].room_id = room_id
            /\ bookings[i].status \in ActiveStatuses
            /\ bookings[i].period.check_in < check_out
            /\ bookings[i].period.check_out > check_in}}

\* Booking.confirm: the status is assigned before the event is built
Booking_confirm(self) ==
    IF self.status # "pending" THEN Raise("BusinessRuleValidationException", self)
    ELSE Raise("ValidationError", [self EXCEPT !.status = "confirmed"])

Booking_cancel(self) ==
    IF self.status \notin ActiveStatuses
    THEN Raise("BusinessRuleValidationException", self)
    ELSE Raise("ValidationError", [self EXCEPT !.status = "cancelled"])

\* Booking.create(room, guest_id, period, adults): the booking is built, the
\* BookingCreated event is not
Booking_create(id, room, period, adults) ==
    IF ~room.is_available THEN Raise("BusinessRuleValidationException", NoObject)
    ELSE IF adults > room.capacity THEN Raise("BusinessRuleValidationException", NoObject)
    ELSE Raise("ValidationError", Booking(id, room.id, period.check_in, period.check_out))

\* the result is [exc, value]
BookingService_is_room_available(bookings, room_id, period) ==
    LET overlapping_bookings ==
            Coroutine(InMemoryBookingRepository_find_overlapping_bookings(
                          bookings, room_id, period.check_in, period.check_out, None))
    IN  IF overlapping_bookings.class = "coroutine"
        THEN [exc |-> "TypeError", value |-> FALSE]
        ELSE [exc |-> NoExc,
              value |-> ~\E booking \in overlapping_bookings :
                            booking.status \in ActiveStatuses]

\* a plausible slip: the booking is stored without asking is_room_available
BookingService_create_booking_unchecked(bookings, room, period, adults) ==
    LET id == Cardinality(DOMAIN bookings) + 1
    IN  Return(Dict_set(bookings, id,
                        Booking(id, room.id, period.check_in, period.check_out)))

\* the results of the service are [exc, self]: self is the repository's dict
BookingService_create_booking(bookings, room, period, adults) ==
    LET available == BookingService_is_room_available(bookings, room.id, period)
        booking == Booking_create(Cardinality(DOMAIN bookings) + 1, room, period, adults)
    IN  IF available.exc # NoExc THEN Raise(available.exc, bookings)
        ELSE IF ~available.value
             THEN Raise("BusinessRuleValidationException", bookings)
        ELSE IF booking.exc # NoExc THEN Raise(booking.exc, bookings)
        \* self.booking_repository.add(booking) builds a coroutine and drops it
        ELSE Return(bookings)

BookingService_confirm_booking(bookings, booking_id) ==
    LET booking == Coroutine(InMemoryBookingRepository_get_by_id(bookings, booking_id))
    IN  IF booking.class = "coroutine" THEN Raise("AttributeError", bookings)
        ELSE LET confirmed == Booking_confirm(booking.self)
             IN  IF confirmed.exc # NoExc
                 THEN Raise(confirmed.exc,
                            [bookings EXCEPT ![booking_id] = confirmed.self])
                 ELSE Return(bookings)

BookingService_cancel_booking(bookings, booking_id) ==
    LET booking == Coroutine(InMemoryBookingRepository_get_by_id(bookings, booking_id))
    IN  IF booking.class = "coroutine" THEN Raise("AttributeError", bookings)
        ELSE LET cancelled == Booking_cancel(booking.self)
             IN  IF cancelled.exc # NoExc
                 THEN Raise(cancelled.exc,
                            [bookings EXCEPT ![booking_id] = cancelled.self])
                 ELSE Return(bookings)

RoomInputs == {[id |-> room_id, is_available |-> TRUE, capacity |-> 2] : room_id \in {1, 2}}
PeriodInputs ==
    {[check_in |-> 1, check_out |-> 2], [check_in |-> 2, check_out |-> 3],
     [check_in |-> 1, check_out |-> 3]}
BookingIdInputs == 1..2

(***************************************************************************)
(* The clients: one action per call.                                       *)
(***************************************************************************)
\* "Direct" is the client that builds its aggregates with the constructors,
\* Shipment() and Course(id, name, capacity), instead of the factories
\* "Dispatcher", "Module" and "Bus" exercise the three event dispatchers
Examples ==
    {"Order", "Shipment", "Course", "EventOrder", "Direct", "Dispatcher", "Module",
     "Bus", "Money", "UserRepo", "CourseRepo", "Identity",
     "Service", "Period", "Payment",
     "OrderItems", "CourseService", "UnitOfWork",
     "Booking"}

Call(op, exc, arg, ret) == [op |-> op, exc |-> exc, arg |-> arg, ret |-> ret]

\* the events new_events holds after those of old_events
Appended(old_events, new_events) ==
    SubSeq(new_events, Len(old_events) + 1, Len(new_events))

Init ==
    /\ ex \in Examples
    /\ \E n \in PrefillInputs, has \in HeldOrders :
          /\ order = CASE ex = "Order" -> Order_filled(n)
                        [] ex = "OrderItems" -> has
                        [] OTHER -> Order_new
          /\ succ = IF ex = "Order" THEN n ELSE 0
    /\ shipment = Shipment_init
    /\ \E capacity \in CapacityInputs :
          course = IF ex = "Direct" THEN Course_init(1, capacity) ELSE Course_absent
    /\ evorder = EventOrder_absent
    /\ last = Call("new", NoExc, <<>>, <<>>)
    /\ emitted = <<>>
    /\ pulled = <<>>
    /\ steps = 0
    /\ registry = <<>>
    /\ held = CASE ex = "UserRepo" ->
                     [w \in Writers |-> [pc |-> "start", base |-> None, user |-> NoObject]]
                [] ex = "CourseService" -> <<>>
                [] OTHER -> NoObject
    /\ repo = <<>>

\* a call of an Order mutator that ended as r
OrderCall(op, arg, r) ==
    /\ ex = "Order"
    /\ r.self = order \/ steps < MaxSteps
    /\ order' = r.self
    /\ last' = Call(op, r.exc, arg, <<>>)
    /\ succ' = IF r.exc = NoExc THEN succ + 1 ELSE succ
    /\ steps' = IF r.self # order THEN steps + 1 ELSE steps
    /\ UNCHANGED <<ex, held, repo, registry, shipment, course, evorder, emitted, pulled>>

OrderAddItem ==
    \E product \in ProductInputs, quantity \in QuantityInputs :
        OrderCall("add_item", <<product.id, quantity>>,
                  Order_add_item(order, product, quantity))

OrderRemoveItem ==
    \E product_id \in ProductIdInputs :
        OrderCall("remove_item", <<product_id>>,
                  Order_remove_item(order, product_id))

OrderUpdateItemQuantity ==
    \E product_id \in ProductIdInputs, new_quantity \in QuantityInputs :
        OrderCall("update_item_quantity", <<product_id, new_quantity>>,
                  Order_update_item_quantity(order, product_id, new_quantity))

OrderPay == OrderCall("pay", <<>>, Order_pay(order))

OrderShip == OrderCall("ship", <<>>, Order_ship(order))

OrderCancel == OrderCall("cancel", <<>>, Order_cancel(order))

\* a call of a Shipment factory or mutator that ended as r
ShipmentCall(op, arg, r) ==
    /\ ex = "Shipment"
    /\ r.self = shipment \/ steps < MaxSteps
    /\ shipment' = r.self
    /\ last' = Call(op, r.exc, arg, <<>>)
    /\ emitted' = emitted \o Appended(shipment.events, r.self.events)
    /\ UNCHANGED <<ex, held, repo, registry, order, course, evorder, pulled>>

ShipmentCreate ==
    /\ shipment = Shipment_init
    /\ \E destination \in DestinationInputs, max_weight \in MaxWeightInputs,
          max_volume \in MaxVolumeInputs :
          ShipmentCall("create", <<max_weight, max_volume>>,
                       Shipment_create(destination, max_weight, max_volume))
    /\ UNCHANGED <<succ, steps>>

ShipmentMutatorCall(op, arg, r) ==
    /\ shipment.id # None
    /\ ShipmentCall(op, arg, r)
    /\ succ' = IF r.exc = NoExc THEN succ + 1 ELSE succ
    /\ steps' = IF r.self # shipment THEN steps + 1 ELSE steps

ShipmentAddParcel ==
    \E order_id \in ParcelOrderIds, weight \in WeightInputs, volume \in VolumeInputs :
        ShipmentMutatorCall("add_parcel", <<order_id, weight, volume>>,
                            Shipment_add_parcel(shipment, order_id, weight, volume))

ShipmentDispatch ==
    \E timestamp \in TimestampInputs :
        ShipmentMutatorCall("dispatch", <<timestamp>>,
                            Shipment_dispatch(shipment, timestamp))

ShipmentMarkAsDelivered ==
    \E timestamp \in TimestampInputs :
        ShipmentMutatorCall("mark_as_delivered", <<timestamp>>,
                            Shipment_mark_as_delivered(shipment, timestamp))

ShipmentPull ==
    /\ ex = "Shipment"
    /\ shipment.id # None
    /\ LET r == Shipment_pull_domain_events(shipment)
       IN  /\ shipment' = r.self
           /\ last' = Call("pull_domain_events", r.exc, <<>>, r.events)
           /\ pulled' = pulled \o r.events
    /\ UNCHANGED <<ex, held, repo, registry, order, course, evorder, emitted, succ, steps>>

\* a call of the Course factory or of enroll_student that ended as r
CourseCall(op, arg, r) ==
    /\ ex = "Course"
    /\ r.self = course \/ steps < MaxSteps
    /\ course' = r.self
    /\ last' = Call(op, r.exc, arg, <<>>)
    /\ emitted' = emitted \o Appended(course.events, r.self.events)
    /\ UNCHANGED <<ex, held, repo, registry, order, shipment, evorder, pulled, succ>>

CourseCreate ==
    /\ course = Course_absent
    /\ \E capacity \in CapacityInputs :
          CourseCall("create", <<capacity>>, Course_create(capacity))
    /\ UNCHANGED steps

CourseEnrollStudent ==
    /\ course.id # None
    /\ \E student_id \in StudentIds :
          LET r == Course_enroll_student(course, student_id)
          IN  /\ CourseCall("enroll_student", <<student_id>>, r)
              /\ steps' = IF r.self # course THEN steps + 1 ELSE steps

CoursePull ==
    /\ ex = "Course"
    /\ course.id # None
    /\ LET r == Course_pull_domain_events(course)
       IN  /\ course' = r.self
           /\ last' = Call("pull_domain_events", r.exc, <<>>, r.events)
           /\ pulled' = pulled \o r.events
    /\ UNCHANGED <<ex, held, repo, registry, order, shipment, evorder, emitted, succ, steps>>

\* a call of the event-recording Order's factory or of pay that ended as r
EventOrderCall(op, arg, r) ==
    /\ ex = "EventOrder"
    /\ evorder' = r.self
    /\ last' = Call(op, r.exc, arg, <<>>)
    /\ emitted' = emitted \o Appended(evorder.events, r.self.events)
    /\ UNCHANGED <<ex, held, repo, registry, order, shipment, course, pulled, succ, steps>>

EventOrderCreate ==
    /\ evorder = EventOrder_absent
    /\ \E total_amount \in TotalAmountInputs :
          EventOrderCall("create", <<total_amount>>, EventOrder_create(total_amount))

\* the client builds the order with the dataclass constructor
EventOrderConstruct ==
    /\ evorder = EventOrder_absent
    /\ EventOrderCall("__init__", <<>>, Return(EventOrder_init))

EventOrderPay ==
    /\ evorder.id # None
    /\ \E payment_reference \in PaymentReferences :
          EventOrderCall("pay", <<payment_reference>>,
                         EventOrder_pay(evorder, payment_reference))

EventOrderPull ==
    /\ ex = "EventOrder"
    /\ evorder.id # None
    /\ LET r == EventOrder_pull_domain_events(evorder)
       IN  /\ evorder' = r.self
           /\ last' = Call("pull_domain_events", r.exc, <<>>, r.events)
           /\ pulled' = pulled \o r.events
    /\ UNCHANGED <<ex, held, repo, registry, order, shipment, course, emitted, succ, steps>>

\* What a client does to a collection an accessor returned: it adds element,
\* removes the last (list) or that (set) element, or clears the collection.
ListChanges == {"append", "pop", "clear"}

SetChanges == {"add", "discard", "clear"}

ChangeList(list, change, element) ==
    CASE change = "append" -> Append(list, element)
      [] change = "pop" -> IF list = <<>> THEN list ELSE SubSeq(list, 1, Len(list) - 1)
      [] change = "clear" -> <<>>

ChangeSet(set, change, element) ==
    CASE change = "add" -> set \cup {element}
      [] change = "discard" -> set \ {element}
      [] change = "clear" -> {}

\* the client reads order.items and changes the list it got
OrderItemsChange ==
    /\ ex = "Order"
    /\ \E change \in ListChanges :
          LET got == Order_items(order)
              changed == ChangeList(got.value, change, OrderItem(2, 1, 1).self)
          IN  /\ order' = IF got.aliased THEN [order EXCEPT !.items = changed]
                          ELSE order
              /\ last' = Call("items", NoExc, <<change>>, changed)
    /\ UNCHANGED <<ex, held, repo, registry, shipment, course, evorder, emitted, pulled, succ,
                   steps>>

\* the client reads shipment.parcels and changes the list it got
ShipmentParcelsChange ==
    /\ ex = "Shipment"
    /\ shipment.id # None
    /\ \E change \in ListChanges :
          LET got == Shipment_parcels(shipment)
              changed == ChangeList(got.value, change,
                                    [order_id |-> 3, weight |-> 1, volume |-> 1])
          IN  /\ shipment' = IF got.aliased THEN [shipment EXCEPT !.parcels = changed]
                             ELSE shipment
              /\ last' = Call("parcels", NoExc, <<change>>, changed)
    /\ UNCHANGED <<ex, held, repo, registry, order, course, evorder, emitted, pulled, succ, steps>>

\* the client reads course.students and changes the set it got
CourseStudentsChange ==
    /\ ex = "Course"
    /\ course.id # None
    /\ \E change \in SetChanges, student_id \in StudentIds :
          LET got == Course_students(course)
              changed == ChangeSet(got.value, change, student_id)
          IN  /\ course' = IF got.aliased THEN [course EXCEPT !.students = changed]
                           ELSE course
              /\ last' = Call("students", NoExc, <<change, student_id>>, changed)
    /\ UNCHANGED <<ex, held, repo, registry, order, shipment, evorder, emitted, pulled, succ,
                   steps>>

\* a call of a mutator on the bare Shipment() that ended as r
DirectShipmentCall(op, arg, r) ==
    /\ ex = "Direct"
    /\ r.self = shipment \/ steps < MaxSteps
    /\ shipment' = r.self
    /\ last' = Call(op, r.exc, arg, <<>>)
    /\ steps' = IF r.self # shipment THEN steps + 1 ELSE steps
    /\ UNCHANGED <<ex, held, repo, registry, order, course, evorder, emitted, pulled, succ>>

DirectAddParcel ==
    \E order_id \in ParcelOrderIds, weight \in WeightInputs, volume \in VolumeInputs :
        DirectShipmentCall("add_parcel", <<order_id, weight, volume>>,
                           Shipment_add_parcel(shipment, order_id, weight, volume))

DirectDispatch ==
    \E timestamp \in TimestampInputs :
        DirectShipmentCall("dispatch", <<timestamp>>,
                           Shipment_dispatch(shipment, timestamp))

DirectMarkAsDelivered ==
    \E timestamp \in TimestampInputs :
        DirectShipmentCall("mark_as_delivered", <<timestamp>>,
                           Shipment_mark_as_delivered(shipment, timestamp))

\* enroll_student on the Course built by Course(id, name, capacity)
DirectEnrollStudent ==
    /\ ex = "Direct"
    /\ \E student_id \in StudentIds :
          LET r == Course_enroll_student(course, student_id)
          IN  /\ r.self = course \/ steps < MaxSteps
              /\ course' = r.self
              /\ last' = Call("enroll_student", r.exc, <<student_id>>, <<>>)
              /\ emitted' = emitted \o Appended(course.events, r.self.events)
              /\ steps' = IF r.self # course THEN steps + 1 ELSE steps
    /\ UNCHANGED <<ex, held, repo, registry, order, shipment, evorder, pulled, succ>>

\* a registration that ended as r; at most MaxSteps handlers are registered
Register(example, op, event_type, handler, r) ==
    /\ ex = example
    /\ steps < MaxSteps
    /\ registry' = r.self
    /\ last' = Call(op, r.exc, <<event_type, handler>>, <<>>)
    /\ steps' = steps + 1
    /\ UNCHANGED <<ex, held, repo, order, shipment, course, evorder, emitted, pulled, succ>>

\* a dispatch of arg that ended as r
Dispatch(example, op, arg, r) ==
    /\ ex = example
    /\ last' = Call(op, r.exc, arg, r.log)
    /\ UNCHANGED <<ex, held, repo, registry, order, shipment, course, evorder, emitted, pulled,
                   succ, steps>>

DispatcherRegister ==
    \E event_type \in EventTypes, handler \in HandlerInputs :
        Register("Dispatcher", "register", event_type, handler,
                 DomainEventDispatcher_register(registry, event_type, handler))

DispatcherDispatch ==
    \E event \in EventInputs :
        Dispatch("Dispatcher", "dispatch", <<event>>,
                 DomainEventDispatcher_dispatch(registry, event))

DispatcherDispatchBatch ==
    \E events \in BatchInputs :
        Dispatch("Dispatcher", "dispatch_batch", events,
                 DomainEventDispatcher_dispatch_batch(registry, events))

ModuleRegisterHandler ==
    \E event_type \in EventTypes, handler \in HandlerInputs :
        Register("Module", "register_handler", event_type, handler,
                 register_handler(registry, event_type, handler))

ModuleDispatchEvent ==
    \E event \in EventInputs :
        Dispatch("Module", "dispatch_event", <<event>>, dispatch_event(registry, event))

BusSubscribe ==
    \E event_type \in EventTypes, handler \in HandlerInputs :
        Register("Bus", "subscribe", event_type, handler,
                 InMemoryEventBus_subscribe(registry, event_type, handler))

BusPublish ==
    \E event \in EventInputs :
        Dispatch("Bus", "publish", <<event>>, InMemoryEventBus_publish(registry, event))

\* a Money constructor or operator call that ended as r: the client keeps
\* the Money it got
MoneyCall(op, arg, r) ==
    /\ ex = "Money"
    /\ r.exc # NoExc \/ r.self = held \/ steps < MaxSteps
    /\ held' = IF r.exc = NoExc THEN r.self ELSE held
    /\ last' = Call(op, r.exc, arg, r.self)
    /\ steps' = IF r.exc = NoExc /\ r.self # held THEN steps + 1 ELSE steps
    /\ UNCHANGED <<ex, repo, registry, order, shipment, course, evorder, emitted,
                   pulled, succ>>

MoneyNew ==
    \E amount \in AmountInputs, currency \in CurrencyInputs :
        MoneyCall("Money", <<amount, currency>>, Money(amount, currency))

MoneyAdd ==
    /\ ex = "Money"
    /\ held # NoObject
    /\ \E other \in MoneyInputs :
          MoneyCall("__add__", <<held, other>>, Money_add(held, other))

MoneySub ==
    /\ ex = "Money"
    /\ held # NoObject
    /\ \E other \in MoneyInputs :
          MoneyCall("__sub__", <<held, other>>, Money_sub(held, other))

\* a step of writer w of the user repository: what it holds and where it is
WriterStep(w, op, arg, ret, pc, base, user) ==
    /\ ex = "UserRepo"
    /\ held' = [held EXCEPT ![w] = [pc |-> pc, base |-> base, user |-> user]]
    /\ last' = Call(op, NoExc, arg, ret)

\* the writer builds a User of its own
WriterNew(w) ==
    /\ ex = "UserRepo"
    /\ held[w].pc = "start"
    /\ \E id \in UserIdInputs, email \in {"alice@example.com"}, version \in VersionInputs :
          LET user == User(id, "Alice", email, version)
              stored == InMemoryUserRepository_get_by_id(repo, id)
          IN  WriterStep(w, "User", <<w>>, user, "changed",
                         IF stored = NoObject THEN None ELSE stored.version, user)
    /\ UNCHANGED <<ex, repo, registry, order, shipment, course, evorder, emitted,
                   pulled, succ, steps>>

\* the writer reads a stored user: repo.get_by_id(id)
WriterGetById(w) ==
    /\ ex = "UserRepo"
    /\ held[w].pc \in {"start", "saved"}
    /\ \E id \in UserIdInputs :
          LET user == InMemoryUserRepository_get_by_id(repo, id)
          IN  IF user = NoObject
              THEN WriterStep(w, "get_by_id", <<id>>, user, "start", None, NoObject)
              ELSE WriterStep(w, "get_by_id", <<id>>, user, "loaded", user.version,
                              user)
    /\ UNCHANGED <<ex, repo, registry, order, shipment, course, evorder, emitted,
                   pulled, succ, steps>>

WriterUpdateEmail(w) ==
    /\ ex = "UserRepo"
    /\ held[w].pc = "loaded"
    /\ \E new_email \in EmailInputs :
          LET user == User_update_email(held[w].user, new_email)
          IN  WriterStep(w, "update_email", <<w, new_email>>, user, "changed",
                         held[w].base, user)
    /\ UNCHANGED <<ex, repo, registry, order, shipment, course, evorder, emitted,
                   pulled, succ, steps>>

\* repo.save(user) with the user the writer holds
WriterSave(w) ==
    /\ ex = "UserRepo"
    /\ held[w].pc = "changed"
    /\ steps < MaxSteps
    /\ LET r == InMemoryUserRepository_save(repo, held[w].user)
       IN  /\ repo' = r.self
           /\ held' = IF r.exc = NoExc THEN [held EXCEPT ![w].pc = "saved"] ELSE held
           /\ last' = Call("save", r.exc, <<held[w].user, w>>, NoObject)
    /\ steps' = steps + 1
    /\ UNCHANGED <<ex, registry, order, shipment, course, evorder, emitted, pulled,
                   succ>>

UserRepoNew == \E w \in Writers : WriterNew(w)

UserRepoGetById == \E w \in Writers : WriterGetById(w)

UserRepoUpdateEmail == \E w \in Writers : WriterUpdateEmail(w)

UserRepoSave == \E w \in Writers : WriterSave(w)

UserRepoDelete ==
    /\ ex = "UserRepo"
    /\ \E id \in UserIdInputs :
          LET r == InMemoryUserRepository_delete(repo, id)
          IN  /\ r.self = repo \/ steps < MaxSteps
              /\ repo' = r.self
              /\ last' = Call("delete", r.exc, <<id>>, NoObject)
              /\ steps' = IF r.self # repo THEN steps + 1 ELSE steps
    /\ UNCHANGED <<ex, held, registry, order, shipment, course, evorder, emitted,
                   pulled, succ>>

CourseRepoSave ==
    /\ ex = "CourseRepo"
    /\ \E a_course \in CourseInputs :
          LET r == InMemoryCourseRepository_save(repo, a_course)
          IN  /\ repo' = r.self
              /\ last' = Call("save", r.exc, <<a_course>>, NoObject)
    /\ UNCHANGED <<ex, held, registry, order, shipment, course, evorder, emitted,
                   pulled, succ, steps>>

CourseRepoFindById ==
    /\ ex = "CourseRepo"
    /\ \E course_id \in CourseIdInputs :
          last' = Call("find_by_id", NoExc, <<course_id>>,
                       InMemoryCourseRepository_find_by_id(repo, course_id))
    /\ UNCHANGED <<ex, held, repo, registry, order, shipment, course, evorder,
                   emitted, pulled, succ, steps>>

\* a == b
AggregateEq ==
    /\ ex = "Identity"
    /\ \E a \in AggregateInputs, b \in AggregateInputs :
          last' = Call("__eq__", NoExc, <<a, b>>, [value |-> Aggregate_eq(a, b)])
    /\ UNCHANGED <<ex, held, repo, registry, order, shipment, course, evorder,
                   emitted, pulled, succ, steps>>

\* hash(a) == hash(b)
AggregateHash ==
    /\ ex = "Identity"
    /\ \E a \in AggregateInputs, b \in AggregateInputs :
          LET ha == Aggregate_hash(a)
              hb == Aggregate_hash(b)
          IN  last' = Call("__hash__", IF ha.exc # NoExc THEN ha.exc ELSE hb.exc,
                           <<a, b>>, [value |-> ha.value = hb.value])
    /\ UNCHANGED <<ex, held, repo, registry, order, shipment, course, evorder,
                   emitted, pulled, succ, steps>>

ServiceRegisterUser ==
    /\ ex = "Service"
    /\ \E command \in CommandInputs :
          LET r == UserApplicationService_register_user(repo, command)
          IN  /\ repo' = r.self
              /\ last' = Call("register_user", r.exc, <<command>>, NoObject)
    /\ UNCHANGED <<ex, held, registry, order, shipment, course, evorder, emitted,
                   pulled, succ, steps>>

ServiceDeactivateUser ==
    /\ ex = "Service"
    /\ \E user_id_str \in UserIdStrInputs :
          LET r == UserApplicationService_deactivate_user(repo, user_id_str)
          IN  /\ repo' = r.self
              /\ last' = Call("deactivate_user", r.exc, <<user_id_str>>, NoObject)
    /\ UNCHANGED <<ex, held, registry, order, shipment, course, evorder, emitted,
                   pulled, succ, steps>>

\* a call of a FinancialPeriod method that ended as r
PeriodCall(op, arg, r) ==
    /\ ex = "Period"
    /\ held' = r.self
    /\ last' = Call(op, r.exc, arg, NoObject)
    /\ UNCHANGED <<ex, repo, registry, order, shipment, course, evorder, emitted,
                   pulled, succ, steps>>

PeriodNew ==
    /\ ex = "Period"
    /\ held = NoObject
    /\ PeriodCall("FinancialPeriod", <<>>, Return(FinancialPeriod))

PeriodClose ==
    /\ ex = "Period"
    /\ held # NoObject
    /\ \E closed_by \in ClosedByInputs :
          PeriodCall("close", <<closed_by>>, FinancialPeriod_close(held, closed_by))

PeriodLock ==
    /\ ex = "Period"
    /\ held # NoObject
    /\ PeriodCall("lock", <<>>, FinancialPeriod_lock(held))

PeriodUnlock ==
    /\ ex = "Period"
    /\ held # NoObject
    /\ PeriodCall("unlock", <<>>, FinancialPeriod_unlock(held))

PeriodArchive ==
    /\ ex = "Period"
    /\ held # NoObject
    /\ PeriodCall("archive", <<>>, FinancialPeriod_archive(held))

\* a call of a Payment method that ended as r
PaymentCall(op, arg, r, ret) ==
    /\ ex = "Payment"
    /\ held' = r.self
    /\ last' = Call(op, r.exc, arg, ret)
    /\ UNCHANGED <<ex, repo, registry, order, shipment, course, evorder, emitted,
                   pulled, succ, steps>>

PaymentNew ==
    /\ ex = "Payment"
    /\ held = NoObject
    /\ \E event_type \in EventTypeInputs, amount \in PaymentAmountInputs :
          PaymentCall("Payment", <<event_type, amount>>,
                      Payment(event_type, amount, "pending"), NoObject)

PaymentComplete ==
    /\ ex = "Payment"
    /\ held # NoObject
    /\ \E transaction_id \in TransactionIdInputs :
          PaymentCall("complete", <<transaction_id>>,
                      Payment_complete(held, transaction_id), NoObject)

PaymentFail ==
    /\ ex = "Payment"
    /\ held # NoObject
    /\ PaymentCall("fail", <<>>, Payment_fail(held), NoObject)

PaymentRefund ==
    /\ ex = "Payment"
    /\ held # NoObject
    /\ \E amount \in RefundAmountInputs :
          LET r == Payment_refund(held, amount)
          IN  PaymentCall("refund", <<amount>>, r, r.ret)

\* order.items[i].change_quantity(new_quantity): the list is new, the
\* OrderItem in it is the object the order holds
OrderItemsChangeQuantity ==
    /\ ex = "OrderItems"
    /\ \E i \in 1..Len(Order_items(order).value), new_quantity \in QuantityInputs :
          LET changed == OrderItem_change_quantity(Order_items(order).value[i],
                                                   new_quantity)
          IN  /\ order' = [order EXCEPT !.items[i] = changed.self]
              /\ last' = Call("change_quantity", changed.exc, <<i, new_quantity>>, <<>>)
    /\ UNCHANGED <<ex, held, repo, registry, shipment, course, evorder, emitted,
                   pulled, succ, steps>>

\* held keeps, per course id, the course as it was when save last stored it
CourseServiceCreateCourse ==
    /\ ex = "CourseService"
    /\ Cardinality(DOMAIN repo) < MaxCourses
    /\ \E name \in {"Py", "Python"}, capacity \in {0, 1, 2} :
          LET r == CourseApplicationService_create_course(repo, name, capacity)
          IN  /\ repo' = r.self
              /\ held' = IF r.exc # NoExc THEN held
                         ELSE Dict_set(held, r.ret.value, r.self[r.ret.value])
              /\ last' = Call("create_course", r.exc, <<name, capacity>>, r.ret)
    /\ UNCHANGED <<ex, registry, order, shipment, course, evorder, emitted, pulled,
                   succ, steps>>

CourseServiceEnrollStudent ==
    /\ ex = "CourseService"
    /\ \E course_id_str \in UserIdStrInputs, student_id_str \in UserIdStrInputs :
          LET r == CourseApplicationService_enroll_student(repo, course_id_str,
                                                           student_id_str)
              id == UUID(course_id_str).value
          IN  /\ repo' = r.self
              /\ held' = IF r.exc # NoExc THEN held ELSE Dict_set(held, id, r.self[id])
              /\ last' = Call("enroll_student", r.exc,
                              <<course_id_str, student_id_str>>, NoObject)
    /\ UNCHANGED <<ex, registry, order, shipment, course, evorder, emitted, pulled,
                   succ, steps>>

\* a client: repo.find_by_id(course_id).enroll_student(student_id), no save
CourseServiceFoundEnroll ==
    /\ ex = "CourseService"
    /\ \E course_id \in DOMAIN repo, student_id \in {1, 2} :
          LET found == InMemoryCourseRepository_find_by_id(repo, course_id)
              r == Course_enroll_student(found, student_id)
          IN  /\ repo' = [repo EXCEPT ![course_id] = r.self]
              /\ last' = Call("find_by_id.enroll_student", r.exc,
                              <<course_id, student_id>>, NoObject)
    /\ UNCHANGED <<ex, held, registry, order, shipment, course, evorder, emitted,
                   pulled, succ, steps>>

\* uow = AccountingUnitOfWork() or uow = BookingUnitOfWork()
UnitOfWorkNew ==
    /\ ex = "UnitOfWork"
    /\ held = NoObject
    /\ \E uow \in {AccountingUnitOfWork, BookingUnitOfWork} :
          /\ held' = [uow |-> uow, inside |-> FALSE, entered |-> <<>>]
          /\ last' = Call("new", NoExc, <<uow.class>>, <<>>)
    /\ UNCHANGED <<ex, repo, registry, order, shipment, course, evorder, emitted,
                   pulled, succ, steps>>

\* async with uow: the block is entered; entered keeps what the repositories
\* hold at that moment
UnitOfWorkEnter ==
    /\ ex = "UnitOfWork"
    /\ held # NoObject
    /\ ~held.inside
    /\ LET uow == IF held.uow.class = "AccountingUnitOfWork"
                  THEN AccountingUnitOfWork_aenter(held.uow)
                  ELSE BookingUnitOfWork_aenter(held.uow)
       IN  /\ held' = [uow |-> uow, inside |-> TRUE,
                       entered |-> UnitOfWork_contents(uow)]
           /\ last' = Call("__aenter__", NoExc, <<>>, <<>>)
    /\ UNCHANGED <<ex, repo, registry, order, shipment, course, evorder, emitted,
                   pulled, succ, steps>>

\* await uow.invoices.save(invoice) or await uow.bookings.add(booking), inside
\* a block or outside of any
UnitOfWorkStore ==
    /\ ex = "UnitOfWork"
    /\ held # NoObject
    /\ \E id \in StoredIdInputs :
          LET r == IF held.uow.class = "AccountingUnitOfWork"
                   THEN InMemoryInvoiceRepository_save(held.uow.invoices,
                                                       [class |-> "Invoice", id |-> id])
                   ELSE InMemoryBookingRepository_add(held.uow.bookings,
                                                      Booking(id, id, 1, 2))
          IN  /\ held' = IF held.uow.class = "AccountingUnitOfWork"
                         THEN [held EXCEPT !.uow.invoices = r.self]
                         ELSE [held EXCEPT !.uow.bookings = r.self]
              /\ last' = Call("store", r.exc, <<id>>, <<>>)
    /\ UNCHANGED <<ex, repo, registry, order, shipment, course, evorder, emitted,
                   pulled, succ, steps>>

\* the block is left, normally (exc_type is None) or by an exception
UnitOfWorkExit ==
    /\ ex = "UnitOfWork"
    /\ held # NoObject
    /\ held.inside
    /\ \E exc_type \in ExcTypeInputs :
          LET uow == IF held.uow.class = "AccountingUnitOfWork"
                     THEN AccountingUnitOfWork_aexit(held.uow, exc_type)
                     ELSE BookingUnitOfWork_aexit(held.uow, exc_type)
          IN  /\ held' = [held EXCEPT !.uow = uow, !.inside = FALSE]
              /\ last' = Call("__aexit__", NoExc, <<exc_type>>, <<>>)
    /\ UNCHANGED <<ex, repo, registry, order, shipment, course, evorder, emitted,
                   pulled, succ, steps>>

\* a client of the repository: await repo.add(Booking(room_id=..., period=...));
\* it books room 1, the service is asked for both rooms
BookingRepoAdd ==
    /\ ex = "Booking"
    /\ Cardinality(DOMAIN repo) < MaxBookings
    /\ \E room \in {r \in RoomInputs : r.id = 1}, period \in PeriodInputs :
          LET id == Cardinality(DOMAIN repo) + 1
              r == InMemoryBookingRepository_add(
                       repo, Booking(id, room.id, period.check_in, period.check_out))
          IN  /\ repo' = r.self
              /\ last' = Call("add", r.exc, <<room.id, period>>, <<>>)
    /\ UNCHANGED <<ex, held, registry, order, shipment, course, evorder, emitted,
                   pulled, succ, steps>>

\* a client of the repository: (await repo.get_by_id(id)).confirm() or
\* .cancel(); the object found is the one the repository holds
BookingRepoChange ==
    /\ ex = "Booking"
    /\ \E booking_id \in DOMAIN repo, op \in {"confirm", "cancel"} :
          LET found == InMemoryBookingRepository_get_by_id(repo, booking_id).self
              r == IF op = "confirm" THEN Booking_confirm(found) ELSE Booking_cancel(found)
          IN  /\ repo' = [repo EXCEPT ![booking_id] = r.self]
              /\ last' = Call(op, r.exc, <<booking_id>>, <<>>)
    /\ UNCHANGED <<ex, held, registry, order, shipment, course, evorder, emitted,
                   pulled, succ, steps>>

\* a call of BookingService that ended as r
BookingServiceCall(op, arg, r) ==
    /\ ex = "Booking"
    /\ repo' = r.self
    /\ last' = Call(op, r.exc, arg, <<>>)
    /\ UNCHANGED <<ex, held, registry, order, shipment, course, evorder, emitted,
                   pulled, succ, steps>>

BookingServiceCreateBooking ==
    \E room \in RoomInputs, period \in PeriodInputs :
        BookingServiceCall("create_booking", <<room.id, period>>,
                           BookingService_create_booking(repo, room, period, 1))

BookingServiceConfirmBooking ==
    \E booking_id \in BookingIdInputs :
        BookingServiceCall("confirm_booking", <<booking_id>>,
                           BookingService_confirm_booking(repo, booking_id))

BookingServiceCancelBooking ==
    \E booking_id \in BookingIdInputs :
        BookingServiceCall("cancel_booking", <<booking_id>>,
                           BookingService_cancel_booking(repo, booking_id))

Next ==
    \/ OrderAddItem
    \/ OrderRemoveItem
    \/ OrderUpdateItemQuantity
    \/ OrderPay
    \/ OrderShip
    \/ OrderCancel
    \/ ShipmentCreate
    \/ ShipmentAddParcel
    \/ ShipmentDispatch
    \/ ShipmentMarkAsDelivered
    \/ ShipmentPull
    \/ CourseCreate
    \/ CourseEnrollStudent
    \/ CoursePull
    \/ EventOrderCreate
    \/ EventOrderConstruct
    \/ EventOrderPay
    \/ EventOrderPull
    \/ OrderItemsChange
    \/ ShipmentParcelsChange
    \/ CourseStudentsChange
    \/ DirectAddParcel
    \/ DirectDispatch
    \/ DirectMarkAsDelivered
    \/ DirectEnrollStudent
    \/ DispatcherRegister
    \/ DispatcherDispatch
    \/ DispatcherDispatchBatch
    \/ ModuleRegisterHandler
    \/ ModuleDispatchEvent
    \/ BusSubscribe
    \/ BusPublish
    \/ MoneyNew
    \/ MoneyAdd
    \/ MoneySub
    \/ UserRepoNew
    \/ UserRepoGetById
    \/ UserRepoUpdateEmail
    \/ UserRepoSave
    \/ UserRepoDelete
    \/ CourseRepoSave
    \/ CourseRepoFindById
    \/ AggregateEq
    \/ AggregateHash
    \/ ServiceRegisterUser
    \/ ServiceDeactivateUser
    \/ PeriodNew
    \/ PeriodClose
    \/ PeriodLock
    \/ PeriodUnlock
    \/ PeriodArchive
    \/ PaymentNew
    \/ PaymentComplete
    \/ PaymentFail
    \/ PaymentRefund
    \/ OrderItemsChangeQuantity
    \/ CourseServiceCreateCourse
    \/ CourseServiceEnrollStudent
    \/ CourseServiceFoundEnroll
    \/ UnitOfWorkNew
    \/ UnitOfWorkEnter
    \/ UnitOfWorkStore
    \/ UnitOfWorkExit
    \/ BookingRepoAdd
    \/ BookingRepoChange
    \/ BookingServiceCreateBooking
    \/ BookingServiceConfirmBooking
    \/ BookingServiceCancelBooking

Spec == Init /\ [][Next]_vars

(***************************************************************************)
(* Properties                                                              *)
(***************************************************************************)
\* the types of a list of events, in order
Types(events) == [i \in 1..Len(events) |-> events[i].type]

\* the event buffer of the aggregate under test
Buffer ==
    CASE ex = "Shipment" -> shipment.events
      [] ex = "Course" -> course.events
      [] ex = "EventOrder" -> evorder.events
      [] ex = "Direct" -> course.events
      [] OTHER -> <<>>

\* C1: every call of an Order mutator that raises leaves version, status and
\* the items (their order, quantities and prices) as they were before the call.
ThmOrderRaiseChangesNothing ==
    [][(ex = "Order" /\ last'.exc # NoExc) => order' = order]_vars

\* an add_item refused because the order already holds MAX_ITEMS_PER_ORDER items
WitOrderRaiseChangesNothing ==
    /\ ex = "Order"
    /\ last.op = "add_item"
    /\ last.exc = "ValueError"
    /\ Len(order.items) = MAX_ITEMS_PER_ORDER

\* C2: every call of a mutator of a created Shipment that raises leaves version,
\* status, the parcels and the event buffer as they were before the call.
ThmShipmentRaiseChangesNothing ==
    [][(ex = "Shipment" /\ shipment.id # None /\ last'.exc # NoExc)
          => shipment' = shipment]_vars

\* an add_parcel refused because the parcel would exceed max_weight
WitShipmentRaiseChangesNothing ==
    /\ ex = "Shipment"
    /\ last.op = "add_parcel"
    /\ last.exc = "ValueError"
    /\ shipment.parcels # <<>>
    /\ SumWeights(shipment.parcels) + last.arg[2] > shipment.max_weight
    /\ Len(shipment.events) = 2

\* C3: the version of an Order and of a created Shipment is 1 plus the number
\* of mutator calls that returned without raising.
ThmVersionCountsSuccesses ==
    /\ ex = "Order" => order.version = 1 + succ
    /\ (ex = "Shipment" /\ shipment.id # None) => shipment.version = 1 + succ

\* an order filled to its limit, then paid and shipped
WitVersionCountsSuccesses ==
    /\ ex = "Order"
    /\ order.status = SHIPPED
    /\ succ = MAX_ITEMS_PER_ORDER + 2
    /\ order.version = MAX_ITEMS_PER_ORDER + 3

\* C4: an enroll_student call that adds a student increases version by exactly
\* 1, whichever seat is taken; a call that adds nobody leaves version unchanged.
CexEnrollBumpsVersionOnce ==
    [][(ex = "Course" /\ last'.op = "enroll_student")
          => course'.version = course.version
                + (IF course'.students # course.students THEN 1 ELSE 0)]_vars

\* C5: enroll_student for a student who is already enrolled raises nothing and
\* changes nothing, in every state of the course, a full course included.
CexEnrollTwiceIsNoOp ==
    [][(ex = "Course" /\ last'.op = "enroll_student"
          /\ last'.arg[1] \in course.students)
          => (last'.exc = NoExc /\ course' = course)]_vars

EnrollEmits ==
    (ex = "Course" /\ last'.op = "enroll_student") =>
        Types(Appended(course.events, course'.events)) =
            IF course'.students = course.students THEN <<>>
            ELSE IF Cardinality(course'.students) = course.capacity
                 THEN <<"StudentEnrolled", "EnrollmentClosed">>
                 ELSE <<"StudentEnrolled">>

ClosedAtMostOnce ==
    ex = "Course" =>
        /\ Cardinality({i \in 1..Len(emitted) :
                           emitted[i].type = "EnrollmentClosed"}) <= 1
        /\ (course.capacity = 1 /\ course.students # {}) =>
               Types(emitted) = <<"CourseCreated", "StudentEnrolled",
                                  "EnrollmentClosed">>

\* C6: the enrolment that fills the course appends StudentEnrolled and then
\* EnrollmentClosed, any other enrolment that adds a student appends
\* StudentEnrolled only; EnrollmentClosed is emitted at most once, and a course
\* of capacity 1 emits [CourseCreated, StudentEnrolled, EnrollmentClosed].
ThmEnrollmentClosedOnLastSeat == [][EnrollEmits]_vars /\ []ClosedAtMostOnce

\* a course of capacity 2 that has just been filled
WitEnrollmentClosedOnLastSeat ==
    /\ ex = "Course"
    /\ course.capacity = 2
    /\ Cardinality(course.students) = 2
    /\ last.op = "enroll_student"
    /\ Types(emitted) = <<"CourseCreated", "StudentEnrolled", "StudentEnrolled",
                          "EnrollmentClosed">>

PullHandsOver ==
    last'.op = "pull_domain_events" => (last'.ret = Buffer /\ Buffer' = <<>>)

PulledOnce ==
    /\ pulled \o Buffer = emitted
    /\ last.op = "pull_domain_events" => Buffer = <<>>

RefusedWhenFull ==
    (ex = "Course" /\ last'.op = "enroll_student"
       /\ Cardinality(course.students) >= course.capacity
       /\ last'.arg[1] \notin course.students)
    => (last'.exc = "ValueError" /\ course' = course)

WithinCapacity ==
    (ex = "Course" /\ course.id # None) =>
        Cardinality(course.students) <= course.capacity

\* C8: a created Course never holds more students than its capacity, and
\* enrolling a student who is not enrolled on a full course raises ValueError
\* and changes nothing.
ThmCourseWithinCapacity == [][RefusedWhenFull]_vars /\ []WithinCapacity

\* a full course of capacity 2 has just refused a third student
WitCourseWithinCapacity ==
    /\ ex = "Course"
    /\ course.capacity = 2
    /\ Cardinality(course.students) = 2
    /\ last.op = "enroll_student"
    /\ last.exc = "ValueError"
    /\ last.arg[1] \notin course.students

OrderStatusStep ==
    ex = "Order" =>
        /\ order'.status # order.status =>
              \/ /\ order.status = PENDING /\ order'.status = PAID
                 /\ last'.op = "pay" /\ order.items # <<>>
              \/ /\ order.status = PAID /\ order'.status = SHIPPED
                 /\ last'.op = "ship"
              \/ /\ order.status \in {PENDING, PAID} /\ order'.status = CANCELLED
                 /\ last'.op = "cancel"
        /\ (last'.op = "pay" /\ (order.status # PENDING \/ order.items = <<>>))
              => last'.exc = "ValueError"
        /\ (last'.op = "ship" /\ order.status # PAID) => last'.exc = "ValueError"
        /\ (last'.op = "cancel" /\ order.status \notin {PENDING, PAID})
              => last'.exc = "ValueError"
        /\ order.status \in {SHIPPED, CANCELLED} => order'.status = order.status

OrderItemMutators == {"add_item", "remove_item", "update_item_quantity"}

OrderMutators == OrderItemMutators \cup {"pay", "ship", "cancel"}

ItemsOnlyWhilePending ==
    (ex = "Order" /\ last'.op \in OrderMutators) =>
        /\ (last'.op \in OrderItemMutators /\ last'.exc = NoExc)
              => order.status = PENDING
        /\ (last'.op \in OrderItemMutators /\ order.status # PENDING)
              => last'.exc = "ValueError"
        /\ order.status # PENDING => order'.items = order.items

FactoryResult ==
    /\ (ex = "Shipment" /\ last'.op = "create") =>
          IF last'.exc = NoExc
          THEN /\ shipment'.id # None
               /\ shipment'.status = PREPARING
               /\ shipment'.parcels = <<>>
               /\ shipment'.version = 1
               /\ Types(shipment'.events) = <<"ShipmentCreated">>
          ELSE shipment' = Shipment_init
    /\ (ex = "Course" /\ last'.op = "create") =>
          IF last'.arg[1] <= 0
          THEN last'.exc = "ValueError" /\ course' = Course_absent
          ELSE /\ last'.exc = NoExc
               /\ course'.id # None
               /\ course'.capacity = last'.arg[1]
               /\ course'.students = {}
               /\ course'.version = 1
               /\ Types(course'.events) = <<"CourseCreated">>

\* C12: Shipment.create and Course.create return an aggregate with an id, its
\* initial status (PREPARING), no children, version 1 and a buffer holding the
\* creation event alone; Course.create with capacity <= 0 raises and returns
\* no aggregate.
ThmFactoryResult == [][FactoryResult]_vars

\* a course of capacity 3, fresh from the factory
WitFactoryResult ==
    /\ ex = "Course"
    /\ last.op = "create"
    /\ last.exc = NoExc
    /\ course.capacity = 3
    /\ course.version = 1
    /\ Len(course.events) = 1
\* C13: on a bare Shipment() and on a Course built by its constructor, every
\* call of add_parcel, dispatch, mark_as_delivered and enroll_student raises an
\* error that is not the business-rule error (ValueError), and changes nothing.
CexDirectMutatorsFail ==
    [][(ex = "Direct" /\ last'.op \in {"add_parcel", "dispatch",
                                         "mark_as_delivered", "enroll_student"})
          => /\ last'.exc \notin {NoExc, "ValueError"}
             /\ shipment' = shipment
             /\ course' = course]_vars
\* the event a Shipment mutator documents, given the arguments of the call
ShipmentEventOf(op, arg) ==
    CASE op = "add_parcel" ->
           [type |-> "ParcelAddedToShipment", aggregate_id |-> shipment.id,
            order_id |-> arg[1], weight |-> arg[2], volume |-> arg[3]]
      [] op = "dispatch" ->
           [type |-> "ShipmentDispatched", aggregate_id |-> shipment.id,
            dispatch_timestamp |-> arg[1]]
      [] op = "mark_as_delivered" ->
           [type |-> "ShipmentDelivered", aggregate_id |-> shipment.id,
            delivery_timestamp |-> arg[1]]

ShipmentEmits ==
    (ex = "Shipment" /\ last'.op \in {"add_parcel", "dispatch", "mark_as_delivered"})
    => IF last'.exc = NoExc
       THEN /\ shipment'.events =
                   Append(shipment.events, ShipmentEventOf(last'.op, last'.arg))
            /\ emitted' = Append(emitted, ShipmentEventOf(last'.op, last'.arg))
       ELSE shipment'.events = shipment.events /\ emitted' = emitted

ShipmentEmitted ==
    (ex = "Shipment" /\ shipment.id # None) =>
        /\ Len(emitted) = 1 + succ
        /\ emitted[1].type = "ShipmentCreated"
        /\ \A i \in 2..Len(emitted) : emitted[i].type # "ShipmentCreated"
        /\ shipment.events = <<>> => pulled = emitted

\* C14: a successful add_parcel appends one ParcelAddedToShipment, a successful
\* dispatch one ShipmentDispatched, a successful mark_as_delivered one
\* ShipmentDelivered, and nothing else; a raising call appends nothing. So all
\* that was ever pulled from a drained shipment is ShipmentCreated followed by
\* one event per successful operation, in the order of the operations.
ThmShipmentEmits == [][ShipmentEmits]_vars /\ []ShipmentEmitted

\* a shipment loaded, dispatched and delivered, its events drained by two pulls
WitShipmentEmits ==
    /\ ex = "Shipment"
    /\ last.op = "pull_domain_events"
    /\ Len(last.ret) \in 1..3
    /\ Types(pulled) = <<"ShipmentCreated", "ParcelAddedToShipment",
                         "ShipmentDispatched", "ShipmentDelivered">>
\* the handlers registered for the type of event, in registration order
RegisteredFor(event) ==
    IF event.type \in DOMAIN registry THEN registry[event.type] ELSE <<>>

\* one invocation with event per handler of handlers, in order
InvocationsOf(handlers, event) ==
    [i \in 1..Len(handlers) |-> Invocation(handlers[i], event)]

\* C15: DomainEventDispatcher.dispatch(event) returns normally after invoking
\* each handler registered for type(event) exactly once, in registration order,
\* and no other handler; with no handler for that type it invokes nothing.
CexDispatchInvokesRegistered ==
    [][(ex = "Dispatcher" /\ last'.op = "dispatch")
          => /\ last'.exc = NoExc
             /\ last'.ret = InvocationsOf(RegisteredFor(last'.arg[1]), last'.arg[1])
             /\ registry' = registry]_vars

\* the handlers after the i-th are the last invocations of the log
LaterHandlersRun(handlers, i, event, log) ==
    LET later == SubSeq(handlers, i + 1, Len(handlers))
    IN  /\ Len(log) >= Len(later)
        /\ SubSeq(log, Len(log) - Len(later) + 1, Len(log)) = InvocationsOf(later, event)

\* C16: when a handler raises during DomainEventDispatcher.dispatch or during
\* InMemoryEventBus.publish, every handler registered after it for the same
\* event type is still invoked, and the call returns without an exception.
CexRaisingHandlerIsIsolated ==
    [][((ex = "Dispatcher" /\ last'.op = "dispatch")
          \/ (ex = "Bus" /\ last'.op = "publish"))
          => LET event == last'.arg[1]
                 handlers == RegisteredFor(event)
             IN  \A i \in 1..Len(handlers) :
                    (/\ handlers[i].raises
                     /\ \E k \in 1..Len(last'.ret) :
                           last'.ret[k] = Invocation(handlers[i], event))
                    => /\ last'.exc = NoExc
                       /\ LaterHandlersRun(handlers, i, event, last'.ret)]_vars

\* C17: dispatch_event(event) invokes the handlers registered by
\* register_handler for type(event), in registration order, a raising handler
\* not stopping the later ones, and returns without an exception.
CexDispatchEventIsolatesHandlers ==
    [][(ex = "Module" /\ last'.op = "dispatch_event")
          => /\ last'.exc = NoExc
             /\ last'.ret = InvocationsOf(RegisteredFor(last'.arg[1]), last'.arg[1])]_vars
\* what dispatching the events one by one, in list order, has to invoke
RECURSIVE InListOrder(_)
InListOrder(events) ==
    IF events = <<>> THEN <<>>
    ELSE InvocationsOf(RegisteredFor(Head(events)), Head(events))
            \o InListOrder(Tail(events))

\* C18: dispatch_batch(events) returns normally after dispatching the events
\* in list order: all handlers of one event run before any handler of the
\* next, and a failure while one event is handled does not keep the later
\* events from being dispatched.
CexBatchInListOrder ==
    [][(ex = "Dispatcher" /\ last'.op = "dispatch_batch")
          => /\ last'.exc = NoExc
             /\ last'.ret = InListOrder(last'.arg)]_vars
AccessorUnchanged ==
    /\ (ex = "Order" /\ last'.op = "items")
          => Order_items(order').value = Order_items(order).value
    /\ (ex = "Shipment" /\ last'.op = "parcels")
          => Shipment_parcels(shipment').value = Shipment_parcels(shipment).value
    /\ (ex = "Course" /\ last'.op = "students")
          => Course_students(course').value = Course_students(course).value

\* C19: after a client has added to, removed from or cleared the collection
\* it got from Order.items, Shipment.parcels or Course.students, the accessor
\* returns what it returned before: same length, same members.
ThmAccessorsReturnCopies == [][AccessorUnchanged]_vars

\* the client cleared the list it got from an order of two items
WitAccessorsReturnCopies ==
    /\ ex = "Order"
    /\ last.op = "items"
    /\ last.arg = <<"clear">>
    /\ last.ret = <<>>
    /\ Len(Order_items(order).value) = 2
\* C20: an Order holds at most MAX_ITEMS_PER_ORDER (10) items, at most one item
\* per product id, and every item's quantity is between 1 and
\* MAX_QUANTITY_PER_ITEM (100), in every state its mutators can reach.
ThmOrderWithinLimits ==
    ex = "Order" =>
        /\ Len(order.items) <= MAX_ITEMS_PER_ORDER
        /\ \A i, j \in 1..Len(order.items) :
              order.items[i].product_id = order.items[j].product_id => i = j
        /\ \A i \in 1..Len(order.items) :
              order.items[i].quantity \in 1..MAX_QUANTITY_PER_ITEM

\* a full order, one of whose items has been raised to the largest quantity,
\* has just refused one more unit of it
WitOrderWithinLimits ==
    /\ ex = "Order"
    /\ Len(order.items) = MAX_ITEMS_PER_ORDER
    /\ \E i \in 1..Len(order.items) : order.items[i].quantity = MAX_QUANTITY_PER_ITEM
    /\ last.op = "add_item"
    /\ last.arg[2] = 1
    /\ last.exc = "ValueError"
MoneyOperators == {"__add__", "__sub__"}

CurrencyKept ==
    (ex = "Money" /\ last'.op \in MoneyOperators) =>
        IF last'.arg[1].currency # last'.arg[2].currency
        THEN last'.exc = "ValueError" /\ last'.ret = NoObject /\ held' = held
        ELSE last'.exc = NoExc => last'.ret.currency = last'.arg[1].currency

\* C21: Money + Money and Money - Money with different currencies raise
\* ValueError and return no Money; with equal currencies the result, when
\* there is one, carries that currency.
ThmCurrencyKept == [][CurrencyKept]_vars

\* roubles minus dollars, refused
WitCurrencyKept ==
    /\ ex = "Money"
    /\ last.op = "__sub__"
    /\ last.exc = "ValueError"
    /\ last.arg[1].currency = <<"R", "U", "B">>
    /\ last.arg[2].currency = <<"U", "S", "D">>
    /\ Float_ge0(Float_sub(last.arg[1].amount, last.arg[2].amount))

\* C22: every Money obtained from the constructor, from + or from - has
\* amount >= 0 and a currency of three upper-case letters.
CexMoneyValid ==
    (ex = "Money" /\ held # NoObject) =>
        /\ Float_ge0(held.amount)
        /\ Len(held.currency) = 3
        /\ \A i \in 1..3 : held.currency[i] \in UpperLetters
\* what the repository under test returns for id
Lookup(dict, id) ==
    IF ex = "UserRepo" THEN InMemoryUserRepository_get_by_id(dict, id)
    ELSE InMemoryCourseRepository_find_by_id(dict, id)

OtherIdsKept(id) ==
    \A other \in (UserIdInputs \cup CourseIdInputs) \ {id} :
        Lookup(repo', other) = Lookup(repo, other)

RepoStep ==
    ex \in {"UserRepo", "CourseRepo"} =>
        CASE last'.op = "save" ->
               /\ last'.exc = NoExc
               /\ Lookup(repo', last'.arg[1].id) = last'.arg[1]
               /\ OtherIdsKept(last'.arg[1].id)
          [] last'.op = "delete" ->
               /\ last'.exc = NoExc
               /\ Lookup(repo', last'.arg[1]) = NoObject
               /\ OtherIdsKept(last'.arg[1])
               /\ Lookup(repo, last'.arg[1]) = NoObject => repo' = repo
          [] last'.op \in {"get_by_id", "find_by_id"} ->
               /\ last'.ret = Lookup(repo, last'.arg[1])
               /\ repo' = repo
          [] OTHER -> repo' = repo

OtherWriter(w) == CHOOSE v \in Writers : v # w

StaleSaveAccepted ==
    (ex = "UserRepo" /\ last'.op = "save") =>
        LET user == last'.arg[1]
            w == last'.arg[2]
            v == OtherWriter(w)
        IN  /\ (user.id \in DOMAIN repo /\ repo[user.id].version >= user.version)
                  => (last'.exc = NoExc /\ repo'[user.id] = user)
            /\ (/\ held[v].pc = "saved"
                /\ held[v].base = held[w].base
                /\ held[v].user.id = user.id
                /\ InMemoryUserRepository_get_by_id(repo, user.id) = held[v].user)
                  => (last'.exc = NoExc /\ repo'[user.id] = user)

CexPayAtMostOnce ==
    [][(ex = "EventOrder" /\ last'.op = "pay") =>
          IF evorder.status = PENDING
          THEN /\ last'.exc = NoExc
               /\ evorder'.status = PAID
               /\ Len(evorder'.events) = Len(evorder.events) + 1
               /\ evorder'.events[Len(evorder'.events)].type = "OrderPaid"
          ELSE /\ last'.exc = "ValueError"
               /\ evorder' = evorder]_vars
\* C26: two aggregate instances (Order, Course, Shipment) with the same id
\* compare equal and hash identically however their other state differs, and
\* two instances with different ids compare unequal.
CexIdentityById ==
    [][(ex = "Identity" /\ last'.op \in {"__eq__", "__hash__"}) =>
          LET a == last'.arg[1]
              b == last'.arg[2]
          IN  a.cls = b.cls =>
                IF last'.op = "__eq__"
                THEN last'.ret.value = (a.id = b.id)
                ELSE a.id = b.id => (last'.exc = NoExc /\ last'.ret.value)]_vars
UniqueEmails ==
    ex = "Service" =>
        \A id \in DOMAIN repo, other \in DOMAIN repo :
            id # other => repo[id].email # repo[other].email

DuplicateRefused ==
    (ex = "Service" /\ last'.op = "register_user") =>
        ((\E id \in DOMAIN repo : repo[id].email = last'.arg[1].email)
            => (last'.exc = "ValidationException" /\ repo' = repo))

\* C27: after any sequence of register_user and deactivate_user calls no two
\* stored users have the same email, and register_user with an email that is
\* already stored raises ValidationException and stores no user.
ThmUniqueEmails == [][DuplicateRefused]_vars /\ []UniqueEmails

\* three users are stored, one of them deactivated, and a registration under
\* the deactivated user's email was just refused
WitUniqueEmails ==
    /\ ex = "Service"
    /\ last.op = "register_user"
    /\ last.exc = "ValidationException"
    /\ last.arg[1].username # ""
    /\ Cardinality(DOMAIN repo) = 3
    /\ \E id \in DOMAIN repo : repo[id].email = last.arg[1].email /\ ~repo[id].is_active
\* the status an operation starts from and the status it leads to
PeriodEdges ==
    [close |-> <<"open", "closed">>, lock |-> <<"open", "locked">>,
     unlock |-> <<"locked", "open">>, archive |-> <<"closed", "archived">>]

PeriodStep ==
    (ex = "Period" /\ last'.op \in DOMAIN PeriodEdges) =>
        IF held.status = PeriodEdges[last'.op][1]
        THEN last'.exc = NoExc /\ held'.status = PeriodEdges[last'.op][2]
        ELSE last'.exc # NoExc /\ held' = held

\* C28: the status of a FinancialPeriod changes only along OPEN->CLOSED
\* (close), OPEN->LOCKED (lock), LOCKED->OPEN (unlock) and CLOSED->ARCHIVED
\* (archive); each operation called from any other status raises and leaves
\* the period unchanged.
ThmPeriodTransitions == [][PeriodStep]_vars

\* unlock was just refused on an archived period
WitPeriodTransitions ==
    /\ ex = "Period"
    /\ held # NoObject
    /\ held.status = "archived"
    /\ last.op = "unlock"
    /\ last.exc = "DomainException"
\* C29: complete and fail succeed only on a PENDING payment (moving it to
\* COMPLETED or FAILED) and raise otherwise; refund succeeds only on a
\* COMPLETED payment and only for an amount not greater than the payment's
\* amount, and it returns a new payment in status REFUNDED while leaving the
\* original payment unchanged.
CexPaymentLifecycle ==
    [][(ex = "Payment" /\ held # NoObject) =>
          CASE last'.op \in {"complete", "fail"} ->
                 IF held.status = "pending"
                 THEN /\ last'.exc = NoExc
                      /\ held'.status = IF last'.op = "complete" THEN "completed"
                                         ELSE "failed"
                 ELSE last'.exc # NoExc /\ held' = held
            [] last'.op = "refund" ->
                 LET amount == IF last'.arg[1] # NoObject THEN last'.arg[1].amount
                               ELSE held.amount.amount
                 IN  /\ held' = held
                     /\ IF held.status = "completed" /\ amount <= held.amount.amount
                        THEN /\ last'.exc = NoExc
                             /\ last'.ret # NoObject
                             /\ last'.ret.status = "refunded"
                        ELSE last'.exc # NoExc
            [] OTHER -> TRUE]_vars
\* C30: add_parcel succeeds on a PREPARING shipment whenever the order id is
\* not yet present and, after the insertion, the total parcel weight is at
\* most max_weight and the total volume at most max_volume, totals equal to
\* the limits and the first parcel of an empty shipment included.
CexAddParcelUpToLimits ==
    [][(ex = "Shipment" /\ last'.op = "add_parcel" /\ shipment.status = PREPARING) =>
          LET order_id == last'.arg[1]
              weight == last'.arg[2]
              volume == last'.arg[3]
          IN  (/\ \A i \in 1..Len(shipment.parcels) :
                      shipment.parcels[i].order_id # order_id
               /\ SumWeights(shipment.parcels) + weight <= shipment.max_weight
               /\ SumVolumes(shipment.parcels) + volume <= shipment.max_volume)
                => (/\ last'.exc = NoExc
                    /\ shipment'.parcels = Append(shipment.parcels,
                          [order_id |-> order_id, weight |-> weight,
                           volume |-> volume]))]_vars
\* C31: an Order's item quantities and total_price change only through the
\* Order's own mutators: nothing a caller does with the objects obtained from
\* Order.items changes them, so they never change while version stays the
\* same and never change in a non-PENDING order.
CexItemsOnlyThroughOrder ==
    [][(ex \in {"Order", "OrderItems"}
        /\ (order'.version = order.version \/ order.status # PENDING))
          => (/\ order'.items = order.items
              /\ Order_total_price(order') = Order_total_price(order))]_vars

\* C34: add_item for a product that is already in a PENDING order increases
\* that item's quantity (provided the sum stays within 100) no matter how many
\* distinct items the order holds.
CexAddItemOfKnownProduct ==
    [][(ex = "Order" /\ last'.op = "add_item" /\ order.status = PENDING) =>
          LET i == Order_find_item(order, last'.arg[1])
              quantity == last'.arg[2]
          IN  (/\ i # 0
               /\ quantity >= 1
               /\ order.items[i].quantity + quantity <= MAX_QUANTITY_PER_ITEM)
                => (/\ last'.exc = NoExc
                    /\ order'.items[i].quantity = order.items[i].quantity + quantity
                    /\ Len(order'.items) = Len(order.items))]_vars

\* C32: after create_course or enroll_student returns successfully the events
\* of that operation have been drained by the service, so the event buffer of
\* a course held in the repository is empty between service calls.
CexServiceDrainsEvents ==
    (ex = "CourseService" /\ last.op \in {"create_course", "enroll_student"}
     /\ last.exc = NoExc)
        => \A id \in DOMAIN repo :
              InMemoryCourseRepository_find_by_id(repo, id).events = <<>>

\* C38: what find_by_id returns is the course as it was at its most recent
\* save: a mutation applied to a saved course, or to an object obtained from
\* find_by_id, is not visible through find_by_id until save is called again.
CexFindReturnsSavedState ==
    ex = "CourseService"
        => \A id \in DOMAIN repo :
              InMemoryCourseRepository_find_by_id(repo, id) = held[id]
\* C33: when an exception escapes an async with block of a unit of work,
\* rollback leaves the repositories holding exactly the contents they had when
\* the block was entered: changes made inside the block are discarded and data
\* stored before the block is kept. Violated by both:
\* AccountingUnitOfWork.rollback replaces the repositories by empty ones,
\* BookingUnitOfWork.rollback touches none.
CexRollbackRestoresEntry ==
    [][(ex = "UnitOfWork" /\ last'.op = "__aexit__" /\ last'.arg[1] # NoExc)
          => UnitOfWork_contents(held'.uow) = held.entered]_vars

ShipmentStatusRank(status) ==
    CASE status = NoStatus -> 0
      [] status = PREPARING -> 1
      [] status = DISPATCHED -> 2
      [] status = DELIVERED -> 3
      [] OTHER -> 4

ShipmentMutators == {"add_parcel", "dispatch", "mark_as_delivered"}

\* every mutator refuses every argument and changes nothing
ShipmentRefusesAll(self) ==
    /\ \A order_id \in ParcelOrderIds, weight \in WeightInputs, volume \in VolumeInputs :
          LET r == Shipment_add_parcel(self, order_id, weight, volume)
          IN  r.exc # NoExc /\ r.self = self
    /\ \A timestamp \in TimestampInputs :
          /\ Shipment_dispatch(self, timestamp).exc # NoExc
          /\ Shipment_dispatch(self, timestamp).self = self
          /\ Shipment_mark_as_delivered(self, timestamp).exc # NoExc
          /\ Shipment_mark_as_delivered(self, timestamp).self = self

ShipmentStatusStep ==
    ex \in {"Shipment", "Direct"} =>
        /\ ShipmentStatusRank(shipment'.status) \in
              {ShipmentStatusRank(shipment.status), ShipmentStatusRank(shipment.status) + 1}
        /\ (shipment.status = DELIVERED /\ last'.op \in ShipmentMutators)
              => (last'.exc # NoExc /\ shipment' = shipment)

ShipmentStatusReached ==
    ex \in {"Shipment", "Direct"} =>
        /\ shipment.status \in {NoStatus, PREPARING, DISPATCHED, DELIVERED}
        /\ shipment.status = DELIVERED => ShipmentRefusesAll(shipment)

\* C35: a Shipment's status only moves forward along PREPARING -> DISPATCHED ->
\* DELIVERED: no operation returns it to an earlier status, DELIVERED is
\* terminal (add_parcel, dispatch and mark_as_delivered raise for every
\* argument and leave the shipment as it is), and the declared statuses
\* IN_TRANSIT and CANCELLED are never reached.
ThmShipmentStatusForward == [][ShipmentStatusStep]_vars /\ []ShipmentStatusReached

\* a delivered shipment on which a mutator was called and refused
WitShipmentStatusForward ==
    /\ ex = "Shipment"
    /\ shipment.status = DELIVERED
    /\ last.op = "dispatch"
    /\ last.exc = "ValueError"

ShipmentSent(self) == self.status \in {DISPATCHED, DELIVERED}

ShipmentParcelsStep ==
    (ex \in {"Shipment", "Direct"} /\ (ShipmentSent(shipment) \/ ShipmentSent(shipment')))
        => shipment'.parcels = shipment.parcels

ShipmentSentHasParcels ==
    (ex \in {"Shipment", "Direct"} /\ ShipmentSent(shipment)) =>
        /\ Len(shipment.parcels) >= 1
        /\ \A order_id \in ParcelOrderIds, weight \in WeightInputs, volume \in VolumeInputs :
              Shipment_add_parcel(shipment, order_id, weight, volume).self.parcels
                  = shipment.parcels
        /\ Shipment_parcels(shipment).aliased = FALSE

\* C36: whenever a Shipment's status is DISPATCHED or DELIVERED it contains at
\* least one parcel, and its parcel list is identical to the list it had at the
\* moment dispatch succeeded: the step that dispatches keeps the list, and so
\* does every step taken from DISPATCHED or DELIVERED, whatever the arguments
\* of add_parcel.
ThmSentParcelsFixed == [][ShipmentParcelsStep]_vars /\ []ShipmentSentHasParcels

\* a dispatched or delivered shipment that has just refused a parcel
WitSentParcelsFixed ==
    /\ ex = "Shipment"
    /\ ShipmentSent(shipment)
    /\ Len(shipment.parcels) >= 1
    /\ last.op = "add_parcel"
    /\ last.exc = "ValueError"

OrderSettled(self) == self.status \in {PAID, SHIPPED}

\* C37: whenever the status of an Order is PAID or SHIPPED the order holds at
\* least one item, and its items and total_price are those it had at the moment
\* pay succeeded: the step that pays keeps them, and so does every step taken
\* from PAID or SHIPPED. Violated: change_quantity on an item obtained from the
\* items property changes a paid order's item and total.
CexPaidItemsFixed ==
    /\ [][(ex \in {"Order", "OrderItems"} /\ (OrderSettled(order) \/ OrderSettled(order')))
             => /\ order'.items = order.items
                /\ Order_total_price(order') = Order_total_price(order)]_vars
    /\ []((ex \in {"Order", "OrderItems"} /\ OrderSettled(order))
             => Len(order.items) >= 1)

Overlap(a, b) ==
    /\ a.room_id = b.room_id
    /\ a.period.check_in < b.period.check_out
    /\ b.period.check_in < a.period.check_out

NoDoubleBooking(bookings) ==
    \A i, j \in DOMAIN bookings :
        (i # j /\ bookings[i].status \in ActiveStatuses
               /\ bookings[j].status \in ActiveStatuses)
            => ~Overlap(bookings[i], bookings[j])

\* the room and period asked for overlap an active booking of the repository
Taken(bookings, room_id, period) ==
    \E i \in DOMAIN bookings :
        /\ bookings[i].status \in ActiveStatuses
        /\ Overlap(bookings[i], [room_id |-> room_id, period |-> period])

BookingServiceOps == {"create_booking", "confirm_booking", "cancel_booking"}

====
